---- MODULE Spec2Model ----
(***************************************************************************)
(* Workflow execution engine of the AIplanet backend:                       *)
(*   backend/routes/workflow.py     run_workflow, log_execution             *)
(*   backend/services/llm_service.py  LLMService.generate_response          *)
(*   backend/services/web_search.py   web_search                            *)
(*                                                                         *)
(* Text is a sequence of string tokens (the empty string is <<>>), so that  *)
(* f-string formatting is concatenation and "contains" is a test on the     *)
(* tokens.  A Python value that may be None is a record [none, s].          *)
(***************************************************************************)
EXTENDS Integers, Sequences, FiniteSets, TLC

\* ------------------------------------------------------------------ bounds
\* longest list of documents the vector index returns to one query
MaxChunks == 2

\* ------------------------------------------------------- Python values
PyNone == [none |-> TRUE, s |-> <<>>]

PyStr(s) == [none |-> FALSE, s |-> s]

\* token-level containment: the text s holds the token t
Contains(s, t) == \E i \in 1..Len(s) : s[i] = t

\* dict.get(key, default)
DictGet(d, key, default) == IF key \in DOMAIN d THEN d[key] ELSE default

\* ------------------------------------------------- the LLM providers
\* what the OpenAI SDK call may do: return a completion whose content is a
\* text, return one whose content is None (message.content is optional),
\* or raise
OpenAIText == <<"openai answer">>

OpenAIUpstreamError == <<"openai upstream failure">>

OpenAIOutcomes ==
    { [kind |-> "text", s |-> OpenAIText],
      [kind |-> "none", s |-> <<>>],
      [kind |-> "raise", s |-> OpenAIUpstreamError] }

gemini_models == <<"gemini-1.5-pro", "gemini-1.5-flash", "gemini-pro">>

GeminiText == <<"gemini answer">>

GeminiUpstreamError == <<"gemini upstream failure">>

\* what one Gemini model variant may do: return text or raise
GeminiVariantOutcomes ==
    { [kind |-> "text", s |-> GeminiText],
      [kind |-> "raise", s |-> GeminiUpstreamError] }

\* one outcome per variant, in the order of gemini_models
GeminiOutcomes == [1..Len(gemini_models) -> GeminiVariantOutcomes]

\* a call of an external collaborator, as the run's trace records it: the
\* function, how it ended, the text it returned or the message it raised,
\* the list it returned (documents, search results), and the numeric
\* argument it was given (n_results, num_results, temperature in tenths),
\* 0 when it takes none
CallL(fn, kind, s, items) ==
    [fn |-> fn, kind |-> kind, s |-> s, items |-> items, n |-> 0]

WithArg(call, n) == [call EXCEPT !.n = n]

Call(fn, kind, s) == CallL(fn, kind, s, <<>>)

\* generate_response_openai: the completion's content, or
\* Exception("OpenAI API error: " + str(e))
generate_response_openai(oa) ==
    IF oa.kind = "raise"
    THEN [raised |-> TRUE, val |-> PyNone,
          err |-> <<"OpenAI API error: ">> \o oa.s]
    ELSE [raised |-> FALSE,
          val |-> IF oa.kind = "none" THEN PyNone ELSE PyStr(oa.s),
          err |-> <<>>]

\* index of the first variant from position i on that returns text, 0 if none
RECURSIVE FirstGeminiSuccess(_, _)
FirstGeminiSuccess(gm, i) ==
    IF i > Len(gemini_models) THEN 0
    ELSE IF gm[i].kind = "text" THEN i
    ELSE FirstGeminiSuccess(gm, i + 1)

\* generate_response_gemini: the variants are tried in order, each failure is
\* printed and skipped; when none succeeds Exception("All Gemini models are
\* unavailable") is raised and re-wrapped by the outer handler
generate_response_gemini(gm) ==
    LET k == FirstGeminiSuccess(gm, 1)
    IN  IF k = 0
        THEN [raised |-> TRUE, val |-> PyNone, tried |-> Len(gemini_models),
              err |-> <<"Gemini API error: ">>
                        \o <<"All Gemini models are unavailable">>]
        ELSE [raised |-> FALSE, val |-> PyStr(gm[k].s), tried |-> k,
              err |-> <<>>]

\* the trace of one generate_response_gemini call: the call, then one entry
\* per variant tried
RECURSIVE GeminiVariantCalls(_, _, _)
GeminiVariantCalls(gm, i, n) ==
    IF i > n THEN <<>>
    ELSE <<Call(gemini_models[i], gm[i].kind, gm[i].s)>>
           \o GeminiVariantCalls(gm, i + 1, n)

GeminiCalls(gm) ==
    LET r == generate_response_gemini(gm)
    IN  <<Call("generate_response_gemini",
               IF r.raised THEN "raise" ELSE "text",
               IF r.raised THEN r.err ELSE r.val.s)>>
          \o GeminiVariantCalls(gm, 1, r.tried)

OpenAICalls(oa) == <<Call("generate_response_openai", oa.kind, oa.s)>>

\* response_data as generate_response initialises it
InitialResponseData ==
    [response |-> PyStr(<<>>), model_used |-> "", success |-> FALSE,
     error |-> <<>>]

\* the three assignments after a provider call that returned
Used(data, val, model) ==
    [data EXCEPT !.response = val, !.model_used = model, !.success = TRUE]

\* the result of the try block of generate_response: whether it raised, the
\* exception's message, response_data and the provider calls made
TryOpenAI(data, oa) ==
    LET r == generate_response_openai(oa)
    IN  [raised |-> r.raised, err |-> r.err, calls |-> OpenAICalls(oa),
         data |-> IF r.raised THEN data ELSE Used(data, r.val, "openai")]

\* variant of TryGemini: model_used is assigned before the call
TryGemini_NamesModelFirst(data, gm) ==
    LET r == generate_response_gemini(gm)
    IN  [raised |-> r.raised, err |-> r.err, calls |-> GeminiCalls(gm),
         data |-> IF r.raised THEN [data EXCEPT !.model_used = "gemini"]
                  ELSE Used(data, r.val, "gemini")]

TryGemini(data, gm) ==
    LET r == generate_response_gemini(gm)
    IN  [raised |-> r.raised, err |-> r.err, calls |-> GeminiCalls(gm),
         data |-> IF r.raised THEN data ELSE Used(data, r.val, "gemini")]

Raise(data, msg) ==
    [raised |-> TRUE, err |-> msg, calls |-> <<>>, data |-> data]

\* variant of AutoBranch: the absorbed OpenAI error is kept in the result of
\* a successful fallback
AutoBranch_KeepsAbsorbedError(data, avail, oa, gm) ==
    IF avail.openai
    THEN LET a == TryOpenAI(data, oa)
         IN  IF ~a.raised THEN a
             ELSE IF avail.gemini
                  THEN LET b == TryGemini([data EXCEPT !.error = a.err], gm)
                       IN  [b EXCEPT !.calls = a.calls \o b.calls]
                  ELSE [Raise(data, <<"No LLM services available">>)
                            EXCEPT !.calls = a.calls]
    ELSE IF avail.gemini
         THEN TryGemini(data, gm)
         ELSE Raise(data, <<"No LLM services available">>)

\* variant of AutoBranch: with no provider available nothing is raised
AutoBranch_SilentWhenNoneAvailable(data, avail, oa, gm) ==
    IF avail.openai
    THEN LET a == TryOpenAI(data, oa)
         IN  IF ~a.raised THEN a
             ELSE IF avail.gemini
                  THEN LET b == TryGemini(data, gm)
                       IN  [b EXCEPT !.calls = a.calls \o b.calls]
                  ELSE [Raise(data, <<"No LLM services available">>)
                            EXCEPT !.calls = a.calls]
    ELSE IF avail.gemini
         THEN TryGemini(data, gm)
         ELSE [raised |-> FALSE, err |-> <<>>, calls |-> <<>>, data |-> data]

\* variant of AutoBranch: Gemini is preferred over OpenAI
AutoBranch_GeminiFirst(data, avail, oa, gm) ==
    IF avail.gemini
    THEN LET b == TryGemini(data, gm)
         IN  IF ~b.raised THEN b
             ELSE IF avail.openai
                  THEN LET a == TryOpenAI(data, oa)
                       IN  [a EXCEPT !.calls = b.calls \o a.calls]
                  ELSE [Raise(data, <<"No LLM services available">>)
                            EXCEPT !.calls = b.calls]
    ELSE IF avail.openai
         THEN TryOpenAI(data, oa)
         ELSE Raise(data, <<"No LLM services available">>)

\* variant of AutoBranch: a Gemini failure with OpenAI unavailable is
\* reported as "No LLM services available"
AutoBranch_MasksGeminiError(data, avail, oa, gm) ==
    IF avail.openai
    THEN LET a == TryOpenAI(data, oa)
         IN  IF ~a.raised THEN a
             ELSE IF avail.gemini
                  THEN LET b == TryGemini(data, gm)
                       IN  [b EXCEPT !.calls = a.calls \o b.calls]
                  ELSE [Raise(data, <<"No LLM services available">>)
                            EXCEPT !.calls = a.calls]
    ELSE IF avail.gemini
         THEN LET b == TryGemini(data, gm)
              IN  IF b.raised
                  THEN [b EXCEPT !.err = <<"No LLM services available">>]
                  ELSE b
         ELSE Raise(data, <<"No LLM services available">>)

\* the "auto" branch: OpenAI first; its failure is absorbed by a bare except
\* and Gemini is tried when available
AutoBranch(data, avail, oa, gm) ==
    IF avail.openai
    THEN LET a == TryOpenAI(data, oa)
         IN  IF ~a.raised THEN a
             ELSE IF avail.gemini
                  THEN LET b == TryGemini(data, gm)
                       IN  [b EXCEPT !.calls = a.calls \o b.calls]
                  ELSE [Raise(data, <<"No LLM services available">>)
                            EXCEPT !.calls = a.calls]
    ELSE IF avail.gemini
         THEN TryGemini(data, gm)
         ELSE Raise(data, <<"No LLM services available">>)

\* variant of TryBlock: an explicit choice that raises falls back to the
\* other provider
TryBlock_ExplicitFallsBack(preferred_model, avail, oa, gm) ==
    LET data == InitialResponseData
    IN  IF preferred_model = "openai" /\ avail.openai
        THEN AutoBranch(data, avail, oa, gm)
        ELSE IF preferred_model = "gemini" /\ avail.gemini
        THEN AutoBranch_GeminiFirst(data, avail, oa, gm)
        ELSE IF preferred_model = "auto"
        THEN AutoBranch(data, avail, oa, gm)
        ELSE Raise(data, <<"Preferred model '", preferred_model,
                           "' not available">>)

\* variant of TryBlock: an unavailable explicit choice is served by whatever
\* is available
TryBlock_UnavailableFallsBack(preferred_model, avail, oa, gm) ==
    LET data == InitialResponseData
    IN  IF preferred_model = "openai" /\ avail.openai
        THEN TryOpenAI(data, oa)
        ELSE IF preferred_model = "gemini" /\ avail.gemini
        THEN TryGemini(data, gm)
        ELSE IF preferred_model \in {"auto", "openai", "gemini"}
        THEN AutoBranch(data, avail, oa, gm)
        ELSE Raise(data, <<"Preferred model '", preferred_model,
                           "' not available">>)

TryBlock(preferred_model, avail, oa, gm) ==
    LET data == InitialResponseData
    IN  IF preferred_model = "openai" /\ avail.openai
        THEN TryOpenAI(data, oa)
        ELSE IF preferred_model = "gemini" /\ avail.gemini
        THEN TryGemini(data, gm)
        ELSE IF preferred_model = "auto"
        THEN AutoBranch(data, avail, oa, gm)
        ELSE Raise(data, <<"Preferred model '", preferred_model,
                           "' not available">>)

\* variant of generate_response: the except clause forgets the message
generate_response_DropsError(preferred_model, avail, oa, gm) ==
    LET t == TryBlock(preferred_model, avail, oa, gm)
    IN  [data |-> IF t.raised
                  THEN [t.data EXCEPT !.success = FALSE]
                  ELSE t.data,
         calls |-> t.calls]

\* LLMService.generate_response: never raises; an exception of the try block
\* becomes error = str(e), success = False
generate_response(preferred_model, avail, oa, gm) ==
    LET t == TryBlock(preferred_model, avail, oa, gm)
    IN  [data |-> IF t.raised
                  THEN [t.data EXCEPT !.error = t.err, !.success = FALSE]
                  ELSE t.data,
         calls |-> t.calls]

\* ------------------------------------------------------ context assembly
\* "\n\n".join(parts)
RECURSIVE Join(_)
Join(parts) ==
    IF parts = <<>> THEN <<>>
    ELSE IF Len(parts) = 1 THEN parts[1]
    ELSE parts[1] \o <<"\n\n">> \o Join(Tail(parts))

\* [f"{label} {i+1}: {item}" for i, item in enumerate(items) if keep(item)],
\* from position i (1-based here, so the printed index is i)
RECURSIVE Labelled(_, _, _, _)
Labelled(label, items, i, skipEmpty) ==
    IF i > Len(items) THEN <<>>
    ELSE IF skipEmpty /\ items[i] = <<>>
    THEN Labelled(label, items, i + 1, skipEmpty)
    ELSE << <<label, ToString(i), ": ">> \o items[i] >>
           \o Labelled(label, items, i + 1, skipEmpty)

KbCall(o) == CallL("search_similar_chunks", o.kind, o.s, o.docs)

\* the knowledge-base context of one search_similar_chunks outcome: a raise
\* is printed and leaves context = ""
KnowledgeBaseContext(o) ==
    IF o.kind = "raise" THEN <<>>
    ELSE Join(Labelled("Context ", o.docs, 1, TRUE))

\* variant of web_search: an empty SerpAPI result also falls through to Brave
web_search_EmptyFallsThrough(sp, bv) ==
    IF sp.kind # "raise" /\ sp.results # <<>> THEN sp.results
    ELSE IF bv.kind # "raise" THEN bv.results
    ELSE <<>>

\* web_search: SerpAPI first; on any exception Brave; when both raise, []
web_search(sp, bv) ==
    IF sp.kind # "raise" THEN sp.results
    ELSE IF bv.kind # "raise" THEN bv.results
    ELSE <<>>

BackendCall(fn, o) == CallL(fn, o.kind, o.s, o.results)

\* line 75: web_search(request.query, num_results=3)
num_results == 3

WebSearchCalls(sp, bv) ==
    <<WithArg(CallL("web_search", "returned", <<>>, web_search(sp, bv)),
              num_results),
      BackendCall("serpapi_search", sp)>>
      \o (IF sp.kind = "raise" THEN <<BackendCall("brave_search", bv)>>
          ELSE <<>>)

\* the web context of one web_search result
WebContext(web_results) ==
    IF web_results = <<>> THEN <<>>
    ELSE Join(Labelled("Web Result ", web_results, 1, FALSE))

\* variant of Combine: the web context is put first
Combine_WebFirst(context, web_context) ==
    IF web_context # <<>>
    THEN IF context # <<>> THEN web_context \o <<"\n\n">> \o context
         ELSE web_context
    ELSE context

\* full_context = context, or context + "\n\n" + web_context, or web_context
Combine(context, web_context) ==
    IF web_context # <<>>
    THEN IF context # <<>> THEN context \o <<"\n\n">> \o web_context
         ELSE web_context
    ELSE context

\* ---------------------------------------------------- configuration
\* variant of FirstLLMNode: the scan does not break, the last match wins
RECURSIVE FirstLLMNode_LastWins(_, _)
FirstLLMNode_LastWins(nodes, i) ==
    IF i > Len(nodes) THEN 0
    ELSE LET later == FirstLLMNode_LastWins(nodes, i + 1)
         IN  IF later # 0 THEN later
             ELSE IF DictGet(nodes[i], "type", "") = "llmEngine" THEN i
             ELSE 0

\* position of the first node of type "llmEngine" from position i, 0 if none
RECURSIVE FirstLLMNode(_, _)
FirstLLMNode(nodes, i) ==
    IF i > Len(nodes) THEN 0
    ELSE IF DictGet(nodes[i], "type", "") = "llmEngine" THEN i
    ELSE FirstLLMNode(nodes, i + 1)

EmptyDict == [k \in {} |-> FALSE]

\* variant of ExtractConfig: a config without useWebSearch enables web search
ExtractConfig_WebSearchByDefault(request) ==
    LET wf == request.workflow
        dflt == [raised |-> FALSE, err |-> <<>>, use_web_search |-> FALSE,
                 selected_model |-> request.preferred_model]
    IN  IF "nodes" \in DOMAIN wf /\ "configs" \in DOMAIN wf
        THEN LET k == FirstLLMNode(wf.nodes, 1)
             IN  IF k = 0 THEN dflt
                 ELSE IF "id" \notin DOMAIN wf.nodes[k]
                 THEN [dflt EXCEPT !.raised = TRUE, !.err = <<"'id'">>]
                 ELSE LET llm_config ==
                              DictGet(wf.configs, wf.nodes[k].id, EmptyDict)
                      IN  [dflt EXCEPT
                             !.use_web_search =
                                 DictGet(llm_config, "useWebSearch", TRUE),
                             !.selected_model =
                                 DictGet(llm_config, "model",
                                         request.preferred_model)]
        ELSE dflt

\* lines 39-55 of run_workflow: use_web_search and selected_model, or the
\* KeyError of llm_node['id']
ExtractConfig(request) ==
    LET wf == request.workflow
        dflt == [raised |-> FALSE, err |-> <<>>, use_web_search |-> FALSE,
                 selected_model |-> request.preferred_model]
    IN  IF "nodes" \in DOMAIN wf /\ "configs" \in DOMAIN wf
        THEN LET k == FirstLLMNode(wf.nodes, 1)
             IN  IF k = 0 THEN dflt
                 ELSE IF "id" \notin DOMAIN wf.nodes[k]
                 THEN [dflt EXCEPT !.raised = TRUE, !.err = <<"'id'">>]
                 ELSE LET llm_config ==
                              DictGet(wf.configs, wf.nodes[k].id, EmptyDict)
                      IN  [dflt EXCEPT
                             !.use_web_search =
                                 DictGet(llm_config, "useWebSearch", FALSE),
                             !.selected_model =
                                 DictGet(llm_config, "model",
                                         request.preferred_model)]
        ELSE dflt

\* ------------------------------------------------------ requests
query == <<"what is foo?">>

\* workflow definitions (request.workflow is a free-form dict): without
\* nodes, without configs, without an llmEngine node, with two llmEngine
\* nodes, with a config that names no model, with no config entry for the
\* node, with an llmEngine node that has no 'id', with an "auto" config
Workflows ==
    { [edges |-> <<>>],
      [nodes |-> <<[id |-> "n1", type |-> "llmEngine"]>>, edges |-> <<>>],
      [nodes |-> <<[id |-> "u1", type |-> "userQuery"]>>,
       configs |-> [u1 |-> [useWebSearch |-> TRUE]]],
      [nodes |-> <<[id |-> "u1", type |-> "userQuery"],
                   [id |-> "n1", type |-> "llmEngine"],
                   [id |-> "n2", type |-> "llmEngine"]>>,
       configs |-> [n1 |-> [model |-> "gemini", useWebSearch |-> TRUE],
                    n2 |-> [model |-> "openai", useWebSearch |-> FALSE]]],
      [nodes |-> <<[id |-> "n1", type |-> "llmEngine"]>>,
       configs |-> [n1 |-> [useWebSearch |-> TRUE]]],
      [nodes |-> <<[id |-> "n1", type |-> "llmEngine"]>>,
       configs |-> [u1 |-> [model |-> "openai", useWebSearch |-> TRUE]]],
      [nodes |-> <<[type |-> "llmEngine"]>>,
       configs |-> [n1 |-> [model |-> "openai"]]],
      [nodes |-> <<[id |-> "n1", type |-> "llmEngine"]>>,
       configs |-> [n1 |-> [model |-> "auto", useWebSearch |-> FALSE]]] }

\* "claude" stands for every value other than the three recognised ones
PreferredModels == {"openai", "gemini", "auto", "claude"}

\* the defaults of WorkflowRunRequest: temperature 0.7, written in tenths,
\* and max_context_chunks 3
temperature == 7

max_context_chunks == 3

Requests ==
    [workflow : Workflows, query : {query},
     preferred_model : PreferredModels, use_knowledge_base : BOOLEAN,
     temperature : {temperature}, max_context_chunks : {max_context_chunks}]

\* ------------------------------------------------ the environment
ChunkTexts == {<<>>, <<"foo">>, <<"bar">>}

DocLists == UNION {[1..n -> ChunkTexts] : n \in 0..MaxChunks}

\* search_similar_chunks raises, or returns the documents of the query
KbOutcomes ==
    {[kind |-> "raise", docs |-> <<>>,
      s |-> <<"Error searching similar chunks: ", "index unavailable">>]}
    \cup {[kind |-> "docs", docs |-> d, s |-> <<>>] : d \in DocLists}

\* a web search backend raises, or returns its formatted results
BackendOutcomes ==
    { [kind |-> "raise", results |-> <<>>, s |-> <<"backend failure">>],
      [kind |-> "returned", results |-> <<>>, s |-> <<>>],
      [kind |-> "returned", results |-> << <<"baz">> >>, s |-> <<>>],
      [kind |-> "returned", results |-> << <<"baz">>, <<"qux">> >>,
       s |-> <<>>] }

\* the execution_logs insert is accepted, or the database refuses it
SinkOutcomes == {"ok", "down"}

\* everything the collaborators may answer to one run
AnyEnv ==
    [kb |-> KbOutcomes, serp |-> BackendOutcomes, brave |-> BackendOutcomes,
     openai |-> OpenAIOutcomes, gemini |-> GeminiOutcomes,
     sink |-> SinkOutcomes]

Runs == {"r1", "r2"}

VARIABLES
    llm_service,     \* the module-level LLMService: its availability flags
    execution_logs,  \* the rows of the execution_logs table, oldest first
    pc,              \* per run: where run_workflow stands
    req,             \* per run: the WorkflowRunRequest
    env,             \* per run: the outcomes the collaborators may produce
    loc,             \* per run: the locals of run_workflow
    out,             \* per run: what run_workflow returned or raised
    calls,           \* per run: the calls made so far, in order
    chunker,         \* the frame of one split_text_into_chunks call
    collection,      \* the "documents" collection of the vector store
    store,           \* the frame of store_embeddings_in_chroma, and the
                     \* calls of it made so far
    template         \* the frame of one get_workflow_template call

vars == <<llm_service, execution_logs, pc, req, env, loc, out, calls,
          chunker, collection, store, template>>

\* no get_workflow_template call is in progress
TemplateIdle ==
    [pc |-> "idle", template_id |-> 0, status_code |-> 0, detail |-> <<>>,
     id |-> 0, name |-> ""]

\* no split_text_into_chunks call is in progress
ChunkerIdle ==
    [pc |-> "idle", text |-> <<>>, chunk_size |-> 0, overlap |-> 0,
     start |-> 0, chunks |-> <<>>, starts |-> <<>>]

\* the collection as get_or_create_collection creates it: no ids
EmptyCollection == << >>

\* no generate_embeddings call was made
NoEmbedding ==
    [raised |-> FALSE, val |-> <<>>, err |-> <<>>, calls |-> <<>>,
     text |-> <<>>]

\* no store_embeddings_in_chroma call has completed
NoStore ==
    [none |-> TRUE, document_id |-> 0, text_chunks |-> <<>>,
     raised |-> FALSE, ids |-> {}]

\* no store_embeddings_in_chroma call is in progress, none was made; last
\* is the latest generate_embeddings call, previous the latest completed
\* store_embeddings_in_chroma call before the current one, made the number
\* of store_embeddings_in_chroma calls so far
StoreIdle ==
    [pc |-> "idle", text_chunks |-> <<>>, document_id |-> 0,
     embeddings |-> <<>>, ids |-> <<>>, val |-> 0, err |-> <<>>,
     last |-> NoEmbedding, previous |-> NoStore, made |-> 0]

\* document ingestion is not running
IngestionIdle ==
    /\ chunker = ChunkerIdle
    /\ collection = EmptyCollection
    /\ store = StoreIdle
    /\ template = TemplateIdle

NoRequest ==
    [workflow |-> [edges |-> <<>>], query |-> query,
     preferred_model |-> "auto", use_knowledge_base |-> FALSE,
     temperature |-> temperature, max_context_chunks |-> max_context_chunks]

InitialLocals ==
    [use_web_search |-> FALSE, selected_model |-> "", context |-> <<>>,
     web_context |-> <<>>, full_context |-> <<>>,
     result |-> InitialResponseData, exc |-> <<>>]

NoOutcome ==
    [kind |-> "pending", status_code |-> 0, response |-> PyStr(<<>>),
     model_used |-> "", context_used |-> PyNone, success |-> FALSE,
     error |-> <<>>, detail |-> <<>>]

Availabilities == [openai : BOOLEAN, gemini : BOOLEAN]

\* the state after import: LLMService() has read the two API keys, no run
\* has started, the table is empty
InitCommon ==
    /\ llm_service \in Availabilities
    /\ execution_logs = <<>>
    /\ loc = [r \in Runs |-> InitialLocals]
    /\ out = [r \in Runs |-> NoOutcome]
    /\ calls = [r \in Runs |-> <<>>]

\* one request arrives; it may meet any behaviour of the collaborators
Init ==
    /\ InitCommon
    /\ pc = [r \in Runs |-> IF r = "r1" THEN "config" ELSE "idle"]
    /\ \E q \in Requests :
           req = [r \in Runs |-> IF r = "r1" THEN q ELSE NoRequest]
    /\ env = [r \in Runs |-> AnyEnv]
    /\ IngestionIdle

\* no workflow run is in progress
WorkflowIdle ==
    /\ InitCommon
    /\ llm_service = [openai |-> TRUE, gemini |-> TRUE]
    /\ pc = [r \in Runs |-> "idle"]
    /\ req = [r \in Runs |-> NoRequest]
    /\ env = [r \in Runs |-> AnyEnv]

\* ------------------------------------------------------ log_execution
\* variant of LogEntry: the entry does not name the model
LogEntry_UnknownModel(r, response, model_used, success, error) ==
    [run |-> r, workflow_id |-> PyNone, query |-> req[r].query,
     response |-> response, model_used |-> "unknown", success |-> success,
     error |-> error]

LogEntry(r, response, model_used, success, error) ==
    [run |-> r, workflow_id |-> PyNone, query |-> req[r].query,
     response |-> response, model_used |-> model_used, success |-> success,
     error |-> error]

\* the INSERT succeeds when the database accepts it and no NOT NULL column
\* (response) is given None; every failure is caught and printed
Inserted(entry, sink) == sink = "ok" /\ ~entry.response.none

\* variant of log_execution: the table keeps the latest row only
log_execution_UpdatesInPlace(logs, entry, sink) ==
    IF Inserted(entry, sink) THEN <<entry>> ELSE logs

log_execution(logs, entry, sink) ==
    IF Inserted(entry, sink) THEN Append(logs, entry) ELSE logs

LogCall(entry, sink) ==
    Call("log_execution",
         IF Inserted(entry, sink) THEN "inserted" ELSE "failed",
         entry.error)

\* ------------------------------------------------------ run_workflow
\* lines 39-55: configuration extraction
ConfigExtraction(r) ==
    /\ pc[r] = "config"
    /\ LET c == ExtractConfig(req[r])
       IN  /\ loc' = [loc EXCEPT ![r].use_web_search = c.use_web_search,
                                 ![r].selected_model = c.selected_model,
                                 ![r].exc = c.err]
           /\ pc' = [pc EXCEPT ![r] = IF c.raised THEN "except" ELSE "kb"]
    /\ UNCHANGED <<template, chunker, collection, store, llm_service, execution_logs, req, env, out, calls>>

\* variant of KnowledgeBase: the search is not wrapped in try/except, its
\* exception reaches the handler's except clause
KnowledgeBase_Propagates(r) ==
    /\ pc[r] = "kb"
    /\ IF req[r].use_knowledge_base
       THEN \E o \in env[r].kb :
              /\ Len(o.docs) <= req[r].max_context_chunks
              /\ loc' = [loc EXCEPT ![r].context = KnowledgeBaseContext(o),
                                    ![r].exc = o.s]
              /\ calls' = [calls EXCEPT ![r] =
                     Append(@, WithArg(KbCall(o),
                                       req[r].max_context_chunks))]
              /\ pc' = [pc EXCEPT ![r] =
                           IF o.kind = "raise" THEN "except" ELSE "web"]
       ELSE /\ UNCHANGED <<loc, calls>>
            /\ pc' = [pc EXCEPT ![r] = "web"]
    /\ UNCHANGED <<template, chunker, collection, store, llm_service, execution_logs, req, env, out>>

\* variant of KnowledgeBase: the node config's useKnowledgeBase and
\* maxContextChunks take precedence over the request's fields
KnowledgeBase_NodeConfigDecides(r) ==
    /\ pc[r] = "kb"
    /\ LET wf == req[r].workflow
           cfg == IF "configs" \in DOMAIN wf /\ "n1" \in DOMAIN wf.configs
                  THEN wf.configs.n1 ELSE EmptyDict
           use == DictGet(cfg, "useKnowledgeBase", req[r].use_knowledge_base)
           k == DictGet(cfg, "maxContextChunks", req[r].max_context_chunks)
       IN  IF use
           THEN \E o \in env[r].kb :
                  /\ Len(o.docs) <= k
                  /\ loc' = [loc EXCEPT
                                ![r].context = KnowledgeBaseContext(o)]
                  /\ calls' = [calls EXCEPT ![r] =
                         Append(@, WithArg(KbCall(o), k))]
           ELSE UNCHANGED <<loc, calls>>
    /\ pc' = [pc EXCEPT ![r] = "web"]
    /\ UNCHANGED <<template, chunker, collection, store, llm_service, execution_logs, req, env, out>>

\* lines 59-71: knowledge-base context; the query returns at most
\* n_results documents
KnowledgeBase(r) ==
    /\ pc[r] = "kb"
    /\ IF req[r].use_knowledge_base
       THEN \E o \in env[r].kb :
              /\ Len(o.docs) <= req[r].max_context_chunks
              /\ loc' = [loc EXCEPT ![r].context = KnowledgeBaseContext(o)]
              /\ calls' = [calls EXCEPT ![r] =
                     Append(@, WithArg(KbCall(o),
                                       req[r].max_context_chunks))]
       ELSE UNCHANGED <<loc, calls>>
    /\ pc' = [pc EXCEPT ![r] = "web"]
    /\ UNCHANGED <<template, chunker, collection, store, llm_service, execution_logs, req, env, out>>

\* lines 72-80: web search context
WebSearch(r) ==
    /\ pc[r] = "web"
    /\ IF loc[r].use_web_search
       THEN \E sp \in env[r].serp, bv \in env[r].brave :
              /\ loc' = [loc EXCEPT ![r].web_context =
                                        WebContext(web_search(sp, bv))]
              /\ calls' = [calls EXCEPT ![r] = @ \o WebSearchCalls(sp, bv)]
       ELSE UNCHANGED <<loc, calls>>
    /\ pc' = [pc EXCEPT ![r] = "generate"]
    /\ UNCHANGED <<template, chunker, collection, store, llm_service, execution_logs, req, env, out>>

\* lines 81-90: combine the contexts and call generate_response
Generation(r) ==
    /\ pc[r] = "generate"
    /\ \E oa \in env[r].openai, gm \in env[r].gemini :
         LET full_context == Combine(loc[r].context, loc[r].web_context)
             g == generate_response(loc[r].selected_model, llm_service,
                                    oa, gm)
         IN  /\ loc' = [loc EXCEPT ![r].full_context = full_context,
                                   ![r].result = g.data]
             /\ calls' = [calls EXCEPT ![r] =
                    Append(@, WithArg(Call("generate_response",
                                           loc[r].selected_model,
                                           full_context),
                                      req[r].temperature))
                      \o g.calls]
    /\ pc' = [pc EXCEPT ![r] = "log"]
    /\ UNCHANGED <<template, chunker, collection, store, llm_service, execution_logs, req, env, out>>

\* variant of LogSuccess: log_execution lets the failure of the insert out
LogSuccess_FailurePropagates(r) ==
    /\ pc[r] = "log"
    /\ \E sink \in env[r].sink :
         LET res == loc[r].result
             entry == LogEntry(r, res.response, res.model_used, res.success,
                               res.error)
         IN  /\ execution_logs' = log_execution(execution_logs, entry, sink)
             /\ calls' = [calls EXCEPT ![r] = Append(@, LogCall(entry, sink))]
             /\ IF Inserted(entry, sink)
                THEN /\ pc' = [pc EXCEPT ![r] = "respond"]
                     /\ loc' = loc
                ELSE /\ pc' = [pc EXCEPT ![r] = "except"]
                     /\ loc' = [loc EXCEPT ![r].exc = <<"insert failed">>]
    /\ UNCHANGED <<template, chunker, collection, store, llm_service, req, env, out>>

\* lines 92-103: the log call of the normal path
LogSuccess(r) ==
    /\ pc[r] = "log"
    /\ \E sink \in env[r].sink :
         LET res == loc[r].result
             entry == LogEntry(r, res.response, res.model_used, res.success,
                               res.error)
         IN  /\ execution_logs' = log_execution(execution_logs, entry, sink)
             /\ calls' = [calls EXCEPT ![r] = Append(@, LogCall(entry, sink))]
    /\ pc' = [pc EXCEPT ![r] = "respond"]
    /\ UNCHANGED <<template, chunker, collection, store, llm_service, req, env, loc, out>>

\* variant of Respond: context_used reports the knowledge-base context only
Respond_KbContextOnly(r) ==
    /\ pc[r] = "respond"
    /\ LET res == loc[r].result
       IN  IF res.response.none
           THEN /\ loc' = [loc EXCEPT ![r].exc =
                    <<"1 validation error for WorkflowRunResponse">>]
                /\ pc' = [pc EXCEPT ![r] = "except"]
                /\ out' = out
           ELSE /\ out' = [out EXCEPT ![r] =
                    [kind |-> "returned", status_code |-> 200,
                     response |-> res.response,
                     model_used |-> res.model_used,
                     context_used |-> IF loc[r].context # <<>>
                                      THEN PyStr(loc[r].context)
                                      ELSE PyNone,
                     success |-> res.success, error |-> res.error,
                     detail |-> <<>>]]
                /\ pc' = [pc EXCEPT ![r] = "returned"]
                /\ loc' = loc
    /\ UNCHANGED <<template, chunker, collection, store, llm_service, execution_logs, req, env, calls>>

\* lines 105-111: WorkflowRunResponse(...); response: str rejects None with
\* a ValidationError, which the handler's except clause catches
Respond(r) ==
    /\ pc[r] = "respond"
    /\ LET res == loc[r].result
       IN  IF res.response.none
           THEN /\ loc' = [loc EXCEPT ![r].exc =
                    <<"1 validation error for WorkflowRunResponse">>]
                /\ pc' = [pc EXCEPT ![r] = "except"]
                /\ out' = out
           ELSE /\ out' = [out EXCEPT ![r] =
                    [kind |-> "returned", status_code |-> 200,
                     response |-> res.response,
                     model_used |-> res.model_used,
                     context_used |-> IF loc[r].full_context # <<>>
                                      THEN PyStr(loc[r].full_context)
                                      ELSE PyNone,
                     success |-> res.success, error |-> res.error,
                     detail |-> <<>>]]
                /\ pc' = [pc EXCEPT ![r] = "returned"]
                /\ loc' = loc
    /\ UNCHANGED <<template, chunker, collection, store, llm_service, execution_logs, req, env, calls>>

\* lines 112-124: the except clause logs the failure and raises
\* HTTPException(500)
ExceptHandler(r) ==
    /\ pc[r] = "except"
    /\ \E sink \in env[r].sink :
         LET entry == LogEntry(r, PyStr(<<>>), "unknown", FALSE, loc[r].exc)
         IN  /\ execution_logs' = log_execution(execution_logs, entry, sink)
             /\ calls' = [calls EXCEPT ![r] = Append(@, LogCall(entry, sink))]
    /\ out' = [out EXCEPT ![r] =
           [NoOutcome EXCEPT !.kind = "raised", !.status_code = 500,
              !.detail = <<"Workflow execution error: ">> \o loc[r].exc]]
    /\ pc' = [pc EXCEPT ![r] = "raised"]
    /\ UNCHANGED <<template, chunker, collection, store, llm_service, req, env, loc>>

Next ==
    \E r \in Runs :
        \/ ConfigExtraction(r)
        \/ KnowledgeBase(r)
        \/ WebSearch(r)
        \/ Generation(r)
        \/ LogSuccess(r)
        \/ Respond(r)
        \/ ExceptHandler(r)

Spec == Init /\ [][Next]_vars

\* ------------------------------------------------ reading a run's trace
CallsOf(r, fn) == SelectSeq(calls[r], LAMBDA c : c.fn = fn)

Called(r, fn) == CallsOf(r, fn) # <<>>

\* generate_response has returned to run_workflow
Generated(r) == Called(r, "generate_response")

\* the resolved model of the run
Resolved(r) == loc[r].selected_model

\* run_workflow has returned or raised
Terminated(r) == pc[r] \in {"returned", "raised"}

\* the rows of execution_logs this run wrote
EntriesOf(r) == SelectSeq(execution_logs, LAMBDA e : e.run = r)

\* the provider call of the run, when it made one
OpenAICall(r) == CallsOf(r, "generate_response_openai")[1]

GeminiCall(r) == CallsOf(r, "generate_response_gemini")[1]

\* the message generate_response_openai raises for an upstream message
OpenAIError(upstream) == <<"OpenAI API error: ">> \o upstream

\* no token of the message is in the text
Disjoint(text, message) == \A i \in 1..Len(message) : ~Contains(text, message[i])

AutoFallbackCase(r) ==
    /\ Generated(r)
    /\ Resolved(r) = "auto"
    /\ llm_service.openai /\ llm_service.gemini
    /\ Called(r, "generate_response_openai")
    /\ OpenAICall(r).kind = "raise"

\* C1: under "auto" with both providers available, when OpenAI raises Gemini
\* is called, and when Gemini returns text r the run returns success=true,
\* model_used="gemini", response=r; neither the returned error nor the error
\* of the run's log entry holds any part of OpenAI's error message.
C1_AutoFallback ==
    \A r \in Runs :
        AutoFallbackCase(r) =>
            /\ Called(r, "generate_response_gemini")
            /\ GeminiCall(r).kind = "text" =>
                 /\ loc[r].result.success
                 /\ loc[r].result.model_used = "gemini"
                 /\ loc[r].result.response = PyStr(GeminiCall(r).s)
                 /\ Disjoint(loc[r].result.error,
                             OpenAIError(OpenAICall(r).s))
                 /\ pc[r] # "except" /\ pc[r] # "raised"
                 /\ pc[r] = "returned" =>
                      /\ out[r].success
                      /\ out[r].model_used = "gemini"
                      /\ out[r].response = PyStr(GeminiCall(r).s)
                      /\ Disjoint(out[r].error, OpenAIError(OpenAICall(r).s))
                 /\ \A i \in 1..Len(EntriesOf(r)) :
                      Disjoint(EntriesOf(r)[i].error,
                               OpenAIError(OpenAICall(r).s))

C1_Witness ==
    /\ AutoFallbackCase("r1")
    /\ GeminiCall("r1").kind = "text"
    /\ pc["r1"] = "returned"
    /\ Len(EntriesOf("r1")) = 1

\* C2: when the resolved model is "openai" (resp. "gemini") and that provider
\* is available, it is the only provider invoked, and when its call raises
\* the result is success=false with that provider's error.
C2_NoFallbackForExplicitChoice ==
    \A r \in Runs :
        Generated(r) =>
            /\ (Resolved(r) = "openai" /\ llm_service.openai) =>
                 /\ Len(CallsOf(r, "generate_response_openai")) = 1
                 /\ ~Called(r, "generate_response_gemini")
                 /\ OpenAICall(r).kind = "raise" =>
                      /\ ~loc[r].result.success
                      /\ loc[r].result.error = OpenAIError(OpenAICall(r).s)
            /\ (Resolved(r) = "gemini" /\ llm_service.gemini) =>
                 /\ Len(CallsOf(r, "generate_response_gemini")) = 1
                 /\ ~Called(r, "generate_response_openai")
                 /\ GeminiCall(r).kind = "raise" =>
                      /\ ~loc[r].result.success
                      /\ loc[r].result.error = GeminiCall(r).s
                      /\ loc[r].result.error[1] = "Gemini API error: "

C2_Witness ==
    /\ Generated("r1")
    /\ Resolved("r1") = "openai"
    /\ llm_service.openai /\ llm_service.gemini
    /\ OpenAICall("r1").kind = "raise"
    /\ pc["r1"] = "returned"

\* the resolved model names a provider that is not available, or nothing
\* the service recognises
UnavailableOrUnrecognized(r) ==
    \/ Resolved(r) = "openai" /\ ~llm_service.openai
    \/ Resolved(r) = "gemini" /\ ~llm_service.gemini
    \/ Resolved(r) \notin {"openai", "gemini", "auto"}

\* C3: when the resolved model names an unavailable provider or is not one
\* of "openai", "gemini", "auto", generation fails with the "Preferred model
\* '...' not available" error and no provider generate call is made.
C3_UnavailableFailsImmediately ==
    \A r \in Runs :
        (Generated(r) /\ UnavailableOrUnrecognized(r)) =>
            /\ ~Called(r, "generate_response_openai")
            /\ ~Called(r, "generate_response_gemini")
            /\ ~loc[r].result.success
            /\ loc[r].result.error =
                 <<"Preferred model '", Resolved(r), "' not available">>

C3_Witness ==
    /\ Generated("r1")
    /\ Resolved("r1") = "openai"
    /\ ~llm_service.openai /\ llm_service.gemini
    /\ pc["r1"] = "returned"

\* C4: under "auto" with neither provider available the run returns
\* success=false with the error "No LLM services available", calls no
\* provider, and calls log_execution exactly once, with success=false: the
\* table holds exactly one row of the run, with success=false, when the
\* insert is accepted.
C4_BothUnavailable ==
    \A r \in Runs :
        (Generated(r) /\ Resolved(r) = "auto"
           /\ ~llm_service.openai /\ ~llm_service.gemini) =>
            /\ ~Called(r, "generate_response_openai")
            /\ ~Called(r, "generate_response_gemini")
            /\ pc[r] # "except" /\ pc[r] # "raised"
            /\ Len(CallsOf(r, "log_execution")) <= 1
            /\ pc[r] = "returned" =>
                 /\ ~out[r].success
                 /\ out[r].error = <<"No LLM services available">>
                 /\ Len(CallsOf(r, "log_execution")) = 1
                 /\ Len(EntriesOf(r)) =
                      (IF CallsOf(r, "log_execution")[1].kind = "inserted"
                       THEN 1 ELSE 0)
                 /\ \A i \in 1..Len(EntriesOf(r)) : ~EntriesOf(r)[i].success

C4_Witness ==
    /\ Resolved("r1") = "auto"
    /\ ~llm_service.openai /\ ~llm_service.gemini
    /\ pc["r1"] = "returned"
    /\ Len(EntriesOf("r1")) = 1

\* the provider calls of the run, in order
ProviderCalls(r) ==
    SelectSeq(calls[r],
              LAMBDA c : c.fn \in {"generate_response_openai",
                                   "generate_response_gemini"})

\* C5: under "auto" with OpenAI available, OpenAI is the first provider
\* attempted; when its call returns, model_used="openai" and Gemini is never
\* invoked in that run.
C5_AutoPriorityOrder ==
    \A r \in Runs :
        (Generated(r) /\ Resolved(r) = "auto" /\ llm_service.openai) =>
            /\ ProviderCalls(r) # <<>>
            /\ ProviderCalls(r)[1].fn = "generate_response_openai"
            /\ OpenAICall(r).kind # "raise" =>
                 /\ loc[r].result.model_used = "openai"
                 /\ loc[r].result.success
                 /\ ~Called(r, "generate_response_gemini")

C5_Witness ==
    /\ Generated("r1")
    /\ Resolved("r1") = "auto"
    /\ llm_service.openai /\ llm_service.gemini
    /\ OpenAICall("r1").kind = "text"
    /\ pc["r1"] = "returned"

C7_ResultConsistency ==
    \A r \in Runs :
        (Generated(r) /\ ~loc[r].result.success) =>
            /\ loc[r].result.response = PyStr(<<>>)
            /\ loc[r].result.error # <<>>

\* both providers raise under "auto"
C7_Witness ==
    /\ Generated("r1")
    /\ Resolved("r1") = "auto"
    /\ Called("r1", "generate_response_openai")
    /\ OpenAICall("r1").kind = "raise"
    /\ Called("r1", "generate_response_gemini")
    /\ GeminiCall("r1").kind = "raise"
    /\ ~loc["r1"].result.success

\* the error fields run_workflow passed to log_execution, in call order
LoggedErrors(r) ==
    [i \in 1..Len(CallsOf(r, "log_execution")) |->
        CallsOf(r, "log_execution")[i].s]

\* every log_execution call of the run was inserted
AllInserted(r) ==
    \A i \in 1..Len(CallsOf(r, "log_execution")) :
        CallsOf(r, "log_execution")[i].kind = "inserted"

\* C8: every execution of run_workflow invokes log_execution exactly once,
\* so exactly one row is appended when the sink accepts the inserts.
C8_ExactlyOneLogEntryPerRun ==
    \A r \in Runs :
        Terminated(r) =>
            /\ Len(CallsOf(r, "log_execution")) = 1
            /\ AllInserted(r) => Len(EntriesOf(r)) = 1

\* the Generation stage of the run failed
GenerationFailed(r) == Generated(r) /\ ~loc[r].result.success

\* C9 as stated: the entry of a run whose Generation stage fails has empty
\* response, model_used="unknown", success=false, the error message and
\* workflow_id=null; workflow_id is null in every entry.
C9_FailureLogContents_AsStated ==
    /\ \A r \in Runs :
         (Terminated(r) /\ GenerationFailed(r)) =>
            \A i \in 1..Len(EntriesOf(r)) :
                /\ EntriesOf(r)[i].response = PyStr(<<>>)
                /\ EntriesOf(r)[i].model_used = "unknown"
                /\ ~EntriesOf(r)[i].success
                /\ EntriesOf(r)[i].error = loc[r].result.error
                /\ EntriesOf(r)[i].workflow_id = PyNone
    /\ \A i \in 1..Len(execution_logs) :
         execution_logs[i].workflow_id = PyNone

\* C9 amended: a run whose Generation stage fails is logged by the normal
\* log call and returns; its entry has empty response, model_used="" (the
\* empty string), success=false, the error of generate_response and
\* workflow_id=null.  model_used="unknown" is written only by the except
\* clause, for a run that raises.  workflow_id is null in every entry.
C9_FailureLogContents ==
    /\ \A r \in Runs :
         GenerationFailed(r) =>
            /\ pc[r] # "except" /\ pc[r] # "raised"
            /\ pc[r] = "returned" => Len(CallsOf(r, "log_execution")) = 1
            /\ \A i \in 1..Len(EntriesOf(r)) :
                /\ EntriesOf(r)[i].response = PyStr(<<>>)
                /\ EntriesOf(r)[i].model_used = ""
                /\ ~EntriesOf(r)[i].success
                /\ EntriesOf(r)[i].error = loc[r].result.error
                /\ EntriesOf(r)[i].error # <<>>
    /\ \A i \in 1..Len(execution_logs) :
         /\ execution_logs[i].workflow_id = PyNone
         /\ execution_logs[i].model_used = "unknown" =>
              /\ pc[execution_logs[i].run] = "raised"
              /\ execution_logs[i].response = PyStr(<<>>)
              /\ ~execution_logs[i].success
              /\ execution_logs[i].error = loc[execution_logs[i].run].exc

C9_Witness ==
    /\ GenerationFailed("r1")
    /\ pc["r1"] = "returned"
    /\ Len(EntriesOf("r1")) = 1
    /\ EntriesOf("r1")[1].model_used = ""

\* ------------------------------------------- the same run, resubmitted
\* the vector-index query of the run raised
KbRaised(r) ==
    /\ Called(r, "search_similar_chunks")
    /\ CallsOf(r, "search_similar_chunks")[1].kind = "raise"

\* both web search backends of the run raised
WebRaised(r) ==
    /\ Called(r, "serpapi_search")
    /\ CallsOf(r, "serpapi_search")[1].kind = "raise"
    /\ Called(r, "brave_search")
    /\ CallsOf(r, "brave_search")[1].kind = "raise"

EmptyDocs == [kind |-> "docs", docs |-> <<>>, s |-> <<>>]

EmptyResults == [kind |-> "returned", results |-> <<>>, s |-> <<>>]

\* the outcomes that the recorded call of run r shows; every outcome when
\* the run did not call the collaborator
MatchingKb(r) ==
    {o \in KbOutcomes :
        Called(r, "search_similar_chunks") =>
            WithArg(KbCall(o), CallsOf(r, "search_similar_chunks")[1].n)
                = CallsOf(r, "search_similar_chunks")[1]}

MatchingBackend(r, fn) ==
    {o \in BackendOutcomes :
        Called(r, fn) => BackendCall(fn, o) = CallsOf(r, fn)[1]}

MatchingOpenAI(r) ==
    {oa \in OpenAIOutcomes :
        Called(r, "generate_response_openai") =>
            OpenAICalls(oa)[1] = CallsOf(r, "generate_response_openai")[1]}

\* the Gemini outcomes that agree with every variant call the run made
MatchingGemini(r) ==
    {gm \in GeminiOutcomes :
        \A i \in 1..Len(gemini_models) :
            Called(r, gemini_models[i]) =>
                Call(gemini_models[i], gm[i].kind, gm[i].s)
                    = CallsOf(r, gemini_models[i])[1]}

\* the collaborators answer as they answered run r, except that the
\* retrieval `which` returns an empty result instead of raising
ReplayEnv(r, which) ==
    [kb |-> IF which = "kb" THEN {EmptyDocs}
            ELSE MatchingKb(r),
     serp |-> IF which = "web" THEN {EmptyResults}
              ELSE MatchingBackend(r, "serpapi_search"),
     brave |-> MatchingBackend(r, "brave_search"),
     openai |-> MatchingOpenAI(r),
     gemini |-> MatchingGemini(r),
     sink |-> SinkOutcomes]

\* the request of the finished run r1, whose retrieval `which` raised, is
\* sent again as run r2
Resubmit(which) ==
    /\ Terminated("r1")
    /\ pc["r2"] = "idle"
    /\ \/ which = "kb" /\ KbRaised("r1")
       \/ which = "web" /\ WebRaised("r1")
    /\ req' = [req EXCEPT !["r2"] = req["r1"]]
    /\ env' = [env EXCEPT !["r2"] = ReplayEnv("r1", which)]
    /\ pc' = [pc EXCEPT !["r2"] = "config"]
    /\ UNCHANGED <<template, chunker, collection, store, llm_service, execution_logs, loc, out, calls>>

NextResubmit ==
    \/ Next
    \/ \E which \in {"kb", "web"} : Resubmit(which)

SpecResubmit == Init /\ [][NextResubmit]_vars

\* context_used as run_workflow derives it from a context string
ContextUsed(context) == IF context = <<>> THEN PyNone ELSE PyStr(context)

\* C10: when the vector-index query or the web search raises, the run ends
\* as the same run does in which that retrieval returned an empty result:
\* the same way of ending, the same returned success, model_used and error
\* and the same error fields passed to the log; the raised retrieval
\* contributes no context, so context_used is the other source's context,
\* or null when that is empty.
C10_SoftFailIsolation ==
    /\ \A r \in Runs :
         /\ KbRaised(r) =>
              /\ loc[r].context = <<>>
              /\ pc[r] = "returned" =>
                   out[r].context_used = ContextUsed(loc[r].web_context)
         /\ WebRaised(r) =>
              /\ loc[r].web_context = <<>>
              /\ pc[r] = "returned" =>
                   out[r].context_used = ContextUsed(loc[r].context)
    /\ (Terminated("r1") /\ Terminated("r2")) =>
         /\ pc["r1"] = pc["r2"]
         /\ out["r1"].success = out["r2"].success
         /\ out["r1"].model_used = out["r2"].model_used
         /\ out["r1"].error = out["r2"].error
         /\ out["r1"].context_used = out["r2"].context_used
         /\ out["r1"].detail = out["r2"].detail
         /\ LoggedErrors("r1") = LoggedErrors("r2")

\* the vector-index query raised, the web search returned a result, and the
\* resubmitted run with an empty query result has returned
C10_Witness ==
    /\ KbRaised("r1")
    /\ pc["r1"] = "returned"
    /\ out["r1"].success
    /\ ~out["r1"].context_used.none
    /\ pc["r2"] = "returned"
    /\ CallsOf("r2", "search_similar_chunks")[1].kind = "docs"

\* the web_search call of the run, when it made one
WebSearchCall(r) == CallsOf(r, "web_search")[1]

\* C11: web_search never raises; SerpAPI is called first and once; Brave is
\* called if and only if SerpAPI raised (an empty SerpAPI result does not
\* trigger it); when both raise the result is the empty list, otherwise it
\* is the list of the first backend that did not raise.
C11_WebSearchFallback ==
    \A r \in Runs :
        Called(r, "web_search") =>
            /\ WebSearchCall(r).kind = "returned"
            /\ Len(CallsOf(r, "serpapi_search")) = 1
            /\ Len(CallsOf(r, "brave_search")) <= 1
            /\ Called(r, "brave_search")
                 <=> CallsOf(r, "serpapi_search")[1].kind = "raise"
            /\ WebSearchCall(r).items =
                 (IF CallsOf(r, "serpapi_search")[1].kind # "raise"
                  THEN CallsOf(r, "serpapi_search")[1].items
                  ELSE IF CallsOf(r, "brave_search")[1].kind # "raise"
                  THEN CallsOf(r, "brave_search")[1].items
                  ELSE <<>>)
            /\ pc[r] \in {"except", "raised"} =>
                 loc[r].exc = <<"1 validation error for WorkflowRunResponse">>

\* SerpAPI returned an empty list without raising: Brave was not called
C11_Witness ==
    /\ Called("r1", "web_search")
    /\ CallsOf("r1", "serpapi_search")[1].kind = "returned"
    /\ CallsOf("r1", "serpapi_search")[1].items = <<>>
    /\ ~Called("r1", "brave_search")
    /\ WebSearchCall("r1").items = <<>>
    /\ pc["r1"] = "returned"

\* label i of a part of the context, as the claim writes it
LabelledItem(label, items, i) == <<label, ToString(i), ": ">> \o items[i]

\* "label 1: x1\n\n...\n\nlabel n: xn", the empty text for the empty list
ContextPart(label, items) ==
    LET part[i \in 0..Len(items)] ==
            IF i = 0 THEN <<>>
            ELSE IF i = 1 THEN LabelledItem(label, items, 1)
            ELSE part[i - 1] \o <<"\n\n">> \o LabelledItem(label, items, i)
    IN  part[Len(items)]

\* the combined context the claim describes for chunks and web results
ExpectedContext(chunks, web) ==
    IF chunks # <<>> /\ web # <<>>
    THEN ContextPart("Context ", chunks) \o <<"\n\n">>
           \o ContextPart("Web Result ", web)
    ELSE IF chunks # <<>> THEN ContextPart("Context ", chunks)
    ELSE ContextPart("Web Result ", web)

\* the documents the vector query gave the run (none when it was not made
\* or raised) and the results web_search gave it
ChunksOf(r) ==
    IF Called(r, "search_similar_chunks")
    THEN CallsOf(r, "search_similar_chunks")[1].items ELSE <<>>

WebResultsOf(r) ==
    IF Called(r, "web_search") THEN WebSearchCall(r).items ELSE <<>>

\* the context run_workflow passed to generate_response
ContextPassed(r) == CallsOf(r, "generate_response")[1].s

\* C12: for non-empty knowledge-base chunks c1..cm and web results w1..wn
\* the context passed to generation is "Context 1: c1\n\n...Context m: cm"
\* followed by "Web Result 1: w1\n\n...Web Result n: wn", joined by "\n\n"
\* when both are non-empty, either part alone when the other is empty, and
\* the empty string when both are empty.
C12_ContextAssembly ==
    \A r \in Runs :
        (Generated(r)
           /\ \A i \in 1..Len(ChunksOf(r)) : ChunksOf(r)[i] # <<>>) =>
            ContextPassed(r) = ExpectedContext(ChunksOf(r), WebResultsOf(r))

\* chunks ["foo","bar"] and web results ["baz"]
C12_Witness ==
    /\ Generated("r1")
    /\ ChunksOf("r1") = << <<"foo">>, <<"bar">> >>
    /\ WebResultsOf("r1") = << <<"baz">> >>
    /\ ContextPassed("r1") =
         <<"Context ", "1", ": ", "foo", "\n\n", "Context ", "2", ": ", "bar",
           "\n\n", "Web Result ", "1", ": ", "baz">>

\* C13: context_used of the returned value is null if and only if the
\* combined context is the empty string, and otherwise is exactly the
\* context that was passed to generation in that run.
C13_ContextUsed ==
    \A r \in Runs :
        pc[r] = "returned" =>
            /\ out[r].context_used.none <=> ContextPassed(r) = <<>>
            /\ ~out[r].context_used.none =>
                 out[r].context_used.s = ContextPassed(r)

\* both sources contributed and the run returned the combined context
C13_Witness ==
    /\ pc["r1"] = "returned"
    /\ loc["r1"].context # <<>>
    /\ loc["r1"].web_context # <<>>
    /\ out["r1"].context_used = PyStr(ContextPassed("r1"))

\* the llmEngine nodes of a definition the interpreter looks at: none when
\* the definition lacks nodes or configs
LLMNodePositions(wf) ==
    IF "nodes" \in DOMAIN wf /\ "configs" \in DOMAIN wf
    THEN {i \in 1..Len(wf.nodes) :
            "type" \in DOMAIN wf.nodes[i] /\ wf.nodes[i].type = "llmEngine"}
    ELSE {}

FirstPosition(S) == CHOOSE i \in S : \A j \in S : i <= j

\* the model the claim resolves for a request whose nodes all carry an id
ExpectedModel(request) ==
    LET wf == request.workflow
        P == LLMNodePositions(wf)
    IN  IF P = {} THEN request.preferred_model
        ELSE LET id == wf.nodes[FirstPosition(P)].id
             IN  IF id \in DOMAIN wf.configs /\ "model" \in DOMAIN wf.configs[id]
                 THEN wf.configs[id].model
                 ELSE request.preferred_model

\* configuration extraction of the run has finished without raising
ConfigExtracted(r) ==
    /\ pc[r] \notin {"idle", "config"}
    /\ loc[r].exc # <<"'id'">>

\* C14: the interpreter uses the first llmEngine node of definition.nodes and
\* ignores the later ones; the resolved model is that node's config "model"
\* when the config has one, and the request's preferred_model otherwise
\* (also with no llmEngine node or no config entry for the node).
C14_ConfigurationExtraction ==
    \A r \in Runs :
        ConfigExtracted(r) => Resolved(r) = ExpectedModel(req[r])

\* two llmEngine nodes with different models: the first one's model is used
C14_Witness ==
    /\ ConfigExtracted("r1")
    /\ Cardinality(LLMNodePositions(req["r1"].workflow)) = 2
    /\ req["r1"].preferred_model = "auto"
    /\ Resolved("r1") = "gemini"
    /\ pc["r1"] = "returned"

\* the stage a recorded collaborator call belongs to, 0 for the calls made
\* inside a stage by the collaborator itself
StageOf(c) ==
    IF c.fn = "search_similar_chunks" THEN 2
    ELSE IF c.fn = "web_search" THEN 3
    ELSE IF c.fn = "generate_response" THEN 4
    ELSE IF c.fn = "log_execution" THEN 5
    ELSE 0

StageCalls(r) == SelectSeq(calls[r], LAMBDA c : StageOf(c) # 0)

\* C20: a run goes through ConfigExtraction, KnowledgeBaseRetrieval,
\* WebSearch, Generation, Logging and Done in that order and enters each
\* stage at most once: the vector query, the web search, generate_response
\* and log_execution are each invoked at most once per run, in stage order.
C20_SinglePassStateOrder ==
    \A r \in Runs :
        \A i, j \in 1..Len(StageCalls(r)) :
            i < j => StageOf(StageCalls(r)[i]) < StageOf(StageCalls(r)[j])

\* ------------------------------------------- split_text_into_chunks
MaxLen == 7

MaxChunkSize == 5

MaxOverlap == 5

\* the loop of a call whose window does not advance (overlap >= chunk_size)
\* is followed for this many iterations
MaxIterations == MaxLen + 1

\* the defaults of the signature
chunk_size == 1000

overlap == 200

Min(a, b) == IF a <= b THEN a ELSE b

Max(a, b) == IF a >= b THEN a ELSE b

\* text[a:b] of Python: a negative bound counts from the end, both bounds
\* are clamped to the text
SliceBound(text, a) ==
    IF a < 0 THEN Max(a + Len(text), 0) ELSE Min(a, Len(text))

PySlice(text, a, b) ==
    IF SliceBound(text, a) < SliceBound(text, b)
    THEN SubSeq(text, SliceBound(text, a) + 1, SliceBound(text, b))
    ELSE <<>>

\* the texts of characters "A" and "B" of a given length
TextsOfLen(n) == [1..n -> {"A", "B"}]

Texts == UNION {TextsOfLen(n) : n \in 0..MaxLen}

\* "A" * 1000 + "B" * 500
ExampleText == [i \in 1..(chunk_size + 500) |->
                    IF i <= chunk_size THEN "A" ELSE "B"]

\* the calls of split_text_into_chunks that are followed
SplitInputs ==
    [text : Texts, chunk_size : 1..MaxChunkSize, overlap : 0..MaxOverlap]
      \cup {[text |-> ExampleText, chunk_size |-> chunk_size,
             overlap |-> overlap]}

InitChunk ==
    /\ WorkflowIdle
    /\ collection = EmptyCollection
    /\ store = StoreIdle
    /\ template = TemplateIdle
    /\ \E input \in SplitInputs :
           chunker = [ChunkerIdle EXCEPT !.pc = "call",
                                         !.text = input.text,
                                         !.chunk_size = input.chunk_size,
                                         !.overlap = input.overlap]

\* variant of SplitEnter: a text of exactly chunk_size characters is windowed
SplitEnter_StrictlyShorter ==
    /\ chunker.pc = "call"
    /\ IF Len(chunker.text) < chunker.chunk_size
       THEN chunker' = [chunker EXCEPT !.pc = "done",
                                       !.chunks = <<chunker.text>>,
                                       !.starts = <<0>>]
       ELSE chunker' = [chunker EXCEPT !.pc = "loop", !.chunks = <<>>,
                                       !.start = 0]
    /\ UNCHANGED <<template, collection, store, llm_service, execution_logs, pc, req,
                   env, loc, out, calls>>

\* lines 81-85: a text that fits in one chunk is returned whole; otherwise
\* chunks = [], start = 0
SplitEnter ==
    /\ chunker.pc = "call"
    /\ IF Len(chunker.text) <= chunker.chunk_size
       THEN chunker' = [chunker EXCEPT !.pc = "done",
                                       !.chunks = <<chunker.text>>,
                                       !.starts = <<0>>]
       ELSE chunker' = [chunker EXCEPT !.pc = "loop", !.chunks = <<>>,
                                       !.start = 0]
    /\ UNCHANGED <<template, collection, store, llm_service, execution_logs, pc, req,
                   env, loc, out, calls>>

\* variant of SplitIterate: the next window starts where this one ended
SplitIterate_NoOverlap ==
    /\ chunker.pc = "loop"
    /\ chunker.start < Len(chunker.text)
    /\ Len(chunker.chunks) < MaxIterations
    /\ LET end == chunker.start + chunker.chunk_size
           chunk == PySlice(chunker.text, chunker.start, end)
           next == end
       IN  chunker' = [chunker EXCEPT
               !.chunks = Append(chunker.chunks, chunk),
               !.starts = Append(chunker.starts, chunker.start),
               !.start = next,
               !.pc = IF next >= Len(chunker.text) THEN "done" ELSE "loop"]
    /\ UNCHANGED <<template, collection, store, llm_service, execution_logs, pc, req,
                   env, loc, out, calls>>

\* variant of SplitIterate: the window steps back one character too many
SplitIterate_WiderOverlap ==
    /\ chunker.pc = "loop"
    /\ chunker.start < Len(chunker.text)
    /\ Len(chunker.chunks) < MaxIterations
    /\ LET end == chunker.start + chunker.chunk_size
           chunk == PySlice(chunker.text, chunker.start, end)
           next == end - chunker.overlap - 1
       IN  chunker' = [chunker EXCEPT
               !.chunks = Append(chunker.chunks, chunk),
               !.starts = Append(chunker.starts, chunker.start),
               !.start = next,
               !.pc = IF next >= Len(chunker.text) THEN "done" ELSE "loop"]
    /\ UNCHANGED <<template, collection, store, llm_service, execution_logs, pc, req,
                   env, loc, out, calls>>

\* variant of SplitIterate: the window advances by half a step
SplitIterate_HalfStep ==
    /\ chunker.pc = "loop"
    /\ chunker.start < Len(chunker.text)
    /\ Len(chunker.chunks) < MaxIterations
    /\ LET end == chunker.start + chunker.chunk_size
           chunk == PySlice(chunker.text, chunker.start, end)
           next == chunker.start
                     + ((chunker.chunk_size - chunker.overlap) \div 2)
       IN  chunker' = [chunker EXCEPT
               !.chunks = Append(chunker.chunks, chunk),
               !.starts = Append(chunker.starts, chunker.start),
               !.start = next,
               !.pc = IF next >= Len(chunker.text) THEN "done" ELSE "loop"]
    /\ UNCHANGED <<template, collection, store, llm_service, execution_logs, pc, req,
                   env, loc, out, calls>>

\* lines 87-96: one iteration of the while loop; the loop is left by the
\* break of line 94 and the function returns chunks
SplitIterate ==
    /\ chunker.pc = "loop"
    /\ chunker.start < Len(chunker.text)
    /\ Len(chunker.chunks) < MaxIterations
    /\ LET end == chunker.start + chunker.chunk_size
           chunk == PySlice(chunker.text, chunker.start, end)
           next == end - chunker.overlap
       IN  chunker' = [chunker EXCEPT
               !.chunks = Append(chunker.chunks, chunk),
               !.starts = Append(chunker.starts, chunker.start),
               !.start = next,
               !.pc = IF next >= Len(chunker.text) THEN "done" ELSE "loop"]
    /\ UNCHANGED <<template, collection, store, llm_service, execution_logs, pc, req,
                   env, loc, out, calls>>

NextChunk ==
    \/ SplitEnter
    \/ SplitIterate

SpecChunk == InitChunk /\ [][NextChunk]_vars

\* split_text_into_chunks has returned
SplitReturned == chunker.pc = "done"

\* the step of the window
Step == chunker.chunk_size - chunker.overlap

\* C15: for every text T and chunk_size with len(T) <= chunk_size, whatever
\* the overlap, split_text_into_chunks returns exactly the list [T].
C15_ShortTextOneChunk ==
    (SplitReturned /\ Len(chunker.text) <= chunker.chunk_size) =>
        chunker.chunks = <<chunker.text>>

\* a text of exactly chunk_size characters, with an overlap of chunk_size
C15_Witness ==
    /\ SplitReturned
    /\ Len(chunker.text) = chunker.chunk_size
    /\ chunker.overlap >= chunker.chunk_size
    /\ chunker.chunks = <<chunker.text>>

\* a chunk without its first k characters
DropFirst(chunk, k) == SubSeq(chunk, k + 1, Len(chunk))

\* the first chunk followed by each later chunk minus its first k characters
Reassembled(chunks, k) ==
    LET upto[i \in 0..Len(chunks)] ==
            IF i = 0 THEN <<>>
            ELSE IF i = 1 THEN chunks[1]
            ELSE upto[i - 1] \o DropFirst(chunks[i], k)
    IN  upto[Len(chunks)]

\* the positions of the text chunk i holds, i counted from 0
PositionsOf(i) ==
    {p \in 1..Len(chunker.text) :
        /\ p > i * Step
        /\ p <= i * Step + Len(chunker.chunks[i + 1])}

\* the call is in the windowed case the claim speaks of
Windowed ==
    /\ Len(chunker.text) > chunker.chunk_size
    /\ 0 <= chunker.overlap
    /\ chunker.overlap < chunker.chunk_size

\* C16: for len(T) > chunk_size and 0 <= overlap < chunk_size, chunk i is
\* T[i*(chunk_size-overlap) : i*(chunk_size-overlap)+chunk_size], the chunks
\* cover every position of T, and the first chunk followed by each later
\* chunk minus its first overlap characters is T; 1000 'A' + 500 'B' with
\* the defaults gives 2 chunks, the second starting at offset 800.
C16_ChunkingCoverage ==
    (SplitReturned /\ Windowed) =>
        /\ \A i \in 0..(Len(chunker.chunks) - 1) :
               chunker.chunks[i + 1] =
                   SubSeq(chunker.text, i * Step + 1,
                          Min(i * Step + chunker.chunk_size,
                              Len(chunker.text)))
        /\ UNION {PositionsOf(i) : i \in 0..(Len(chunker.chunks) - 1)}
             = 1..Len(chunker.text)
        /\ Reassembled(chunker.chunks, chunker.overlap) = chunker.text
        /\ (chunker.text = ExampleText /\ chunker.chunk_size = chunk_size
              /\ chunker.overlap = overlap) =>
               /\ Len(chunker.chunks) = 2
               /\ chunker.starts = <<0, 800>>
               /\ chunker.chunks[1] = [i \in 1..1000 |-> "A"]
               /\ chunker.chunks[2] =
                      [i \in 1..700 |-> IF i <= 200 THEN "A" ELSE "B"]

\* the example of the claim has been chunked
C16_Witness ==
    /\ SplitReturned
    /\ Windowed
    /\ chunker.text = ExampleText
    /\ Len(chunker.chunks) = 2
    /\ chunker.starts[2] = 800

\* the characters chunk i and chunk i + 1 (i counted from 1) have in common
\* by position
Shared(i) ==
    Max(0, chunker.starts[i] + Len(chunker.chunks[i]) - chunker.starts[i + 1])

NoEmptyChunk == \A i \in 1..Len(chunker.chunks) : chunker.chunks[i] # <<>>

SharedAtMostOverlap ==
    \A i \in 1..(Len(chunker.chunks) - 1) : Shared(i) <= chunker.overlap

\* C17 as stated: for every text, the empty text included, and every
\* chunk_size > overlap >= 0, no returned chunk is empty and consecutive
\* chunks share at most overlap characters.
C17_NoChunkIsEmpty_AsStated ==
    (SplitReturned /\ chunker.chunk_size > chunker.overlap) =>
        /\ NoEmptyChunk
        /\ SharedAtMostOverlap

\* C17: for every non-empty text and every chunk_size > overlap >= 0, no
\* returned chunk is empty and consecutive chunks share at most overlap
\* characters; for the empty text the result is the list [""].
C17_NoChunkIsEmpty ==
    (SplitReturned /\ chunker.chunk_size > chunker.overlap) =>
        /\ chunker.text # <<>> => NoEmptyChunk
        /\ chunker.text = <<>> => chunker.chunks = << <<>> >>
        /\ SharedAtMostOverlap

\* a windowed text whose last chunk is shorter than the overlap
C17_Witness ==
    /\ SplitReturned
    /\ Windowed
    /\ Len(chunker.chunks) >= 3
    /\ Len(chunker.chunks[Len(chunker.chunks)]) < chunker.overlap
    /\ Shared(1) = chunker.overlap
    /\ NoEmptyChunk

\* ------------------------------------------------ generate_embeddings
\* the remote embedding request and the local model: each returns a vector
\* or raises
RemoteOutcomes ==
    { [kind |-> "returned", s |-> <<>>],
      [kind |-> "raise", s |-> <<"remote failure">>] }

LocalOutcomes ==
    { [kind |-> "returned", s |-> <<>>],
      [kind |-> "raise", s |-> <<"local failure">>] }

\* the vector a model gives for a text
Vector(model, text) == <<model>> \o text

\* lines 23-46: the local model's vector, or its error wrapped
generate_embeddings_local(text, lo) ==
    IF lo.kind = "raise"
    THEN [raised |-> TRUE, val |-> <<>>,
          err |-> <<"Error generating local embeddings: ">> \o lo.s]
    ELSE [raised |-> FALSE, val |-> Vector("all-MiniLM-L6-v2", text),
          err |-> <<>>]

\* variant of generate_embeddings: the remote error is raised, the local
\* model is not tried
generate_embeddings_NoFallback(text, ro, lo) ==
    [raised |-> ro.kind = "raise",
     val |-> IF ro.kind = "raise" THEN <<>>
             ELSE Vector("text-embedding-ada-002", text),
     err |-> ro.s,
     calls |-> <<Call("client.embeddings.create", ro.kind, ro.s)>>,
     text |-> text]

\* lines 48-67: the remote vector; on any exception of the remote request,
\* whatever generate_embeddings_local returns or raises
generate_embeddings(text, ro, lo) ==
    IF ro.kind # "raise"
    THEN [raised |-> FALSE, val |-> Vector("text-embedding-ada-002", text),
          err |-> <<>>,
          calls |-> <<Call("client.embeddings.create", ro.kind, ro.s)>>,
          text |-> text]
    ELSE LET l == generate_embeddings_local(text, lo)
         IN  [raised |-> l.raised, val |-> l.val, err |-> l.err,
              calls |-> <<Call("client.embeddings.create", ro.kind, ro.s),
                          Call("generate_embeddings_local", lo.kind, lo.s)>>,
              text |-> text]

\* --------------------------------------- store_embeddings_in_chroma
\* the document ids of the documents table that are followed
DocumentIds == {1, 2}

\* the chunk lists split_text_into_chunks hands over: at least one chunk,
\* none of them empty (the callers chunk non-empty text only)
ChunkLists ==
    { << <<"foo">> >>, << <<"bar">> >>,
      << <<"foo">>, <<"bar">> >>, << <<"bar">>, <<"baz">> >> }

\* the number of store_embeddings_in_chroma calls that are followed
MaxStores == 2

\* f"doc_{document_id}_chunk_{i}"
ChunkId(document_id, i) ==
    <<"doc_", ToString(document_id), "_chunk_", ToString(i)>>

\* collection.add meets an id the collection already holds: depending on the
\* chromadb version it raises, or it keeps the stored record and ignores the
\* new one
DuplicateOutcomes == {"raise", "ignore"}

\* the record stored under ids[i]
Record(i) ==
    [document |-> store.text_chunks[i], embedding |-> store.embeddings[i],
     metadata |-> [document_id |-> store.document_id, chunk_index |-> i - 1,
                   chunk_size |-> Len(store.text_chunks[i])]]

\* positions of the batch whose id the collection holds already
Duplicates == {i \in 1..Len(store.ids) : store.ids[i] \in DOMAIN collection}

\* the collection after the positions P of the batch were added
Added(P) ==
    [id \in DOMAIN collection \cup {store.ids[i] : i \in P} |->
        IF id \in DOMAIN collection THEN collection[id]
        ELSE Record(CHOOSE i \in P : store.ids[i] = id)]

\* the call that has just completed, as the next call will remember it
Completed(raised, ids) ==
    [none |-> FALSE, document_id |-> store.document_id,
     text_chunks |-> store.text_chunks, raised |-> raised, ids |-> ids]

InitIndex ==
    /\ WorkflowIdle
    /\ IngestionIdle

\* documents.py lines 95 and 200: upload_document and reprocess_document call
\* store_embeddings_in_chroma(text_chunks, doc_id, filename)
StoreCall ==
    /\ store.pc \in {"idle", "returned", "raised"}
    /\ store.made < MaxStores
    /\ \E document_id \in DocumentIds, text_chunks \in ChunkLists :
           store' = [store EXCEPT
               !.pc = "embed", !.text_chunks = text_chunks,
               !.document_id = document_id, !.embeddings = <<>>,
               !.ids = <<>>, !.val = 0, !.err = <<>>,
               !.made = store.made + 1,
               !.previous = IF store.pc = "idle" THEN NoStore
                            ELSE Completed(store.pc = "raised",
                                           DOMAIN collection)]
    /\ UNCHANGED <<template, chunker, collection, llm_service, execution_logs, pc, req,
                   env, loc, out, calls>>

\* lines 117-131: one iteration of the loop over the chunks; an exception of
\* generate_embeddings leaves through the except clause of lines 143-144
StoreEmbed ==
    /\ store.pc = "embed"
    /\ LET i == Len(store.ids)
           chunk == store.text_chunks[i + 1]
       IN  \E ro \in RemoteOutcomes, lo \in LocalOutcomes :
               LET embedding == generate_embeddings(chunk, ro, lo)
               IN  IF embedding.raised
                   THEN store' = [store EXCEPT
                            !.pc = "raised", !.last = embedding,
                            !.err = <<"Error storing embeddings in ChromaDB: ">>
                                      \o embedding.err]
                   ELSE store' = [store EXCEPT
                            !.last = embedding,
                            !.embeddings = Append(store.embeddings,
                                                  embedding.val),
                            !.ids = Append(store.ids,
                                           ChunkId(store.document_id, i)),
                            !.pc = IF i + 1 = Len(store.text_chunks)
                                   THEN "add" ELSE "embed"]
    /\ UNCHANGED <<template, chunker, collection, llm_service, execution_logs, pc, req,
                   env, loc, out, calls>>

\* lines 134-144: collection.add of the whole batch, then return
\* len(text_chunks); an exception of add leaves through the except clause
StoreAdd ==
    /\ store.pc = "add"
    /\ \E duplicate \in DuplicateOutcomes :
           IF Duplicates # {} /\ duplicate = "raise"
           THEN /\ store' = [store EXCEPT
                        !.pc = "raised",
                        !.err = <<"Error storing embeddings in ChromaDB: ",
                                  "duplicate id">>]
                /\ collection' = collection
           ELSE /\ store' = [store EXCEPT !.pc = "returned",
                                          !.val = Len(store.text_chunks)]
                /\ collection' = Added((1..Len(store.ids)) \ Duplicates)
    /\ UNCHANGED <<template, chunker, llm_service, execution_logs, pc, req, env, loc,
                   out, calls>>

NextIndex ==
    \/ StoreCall
    \/ StoreEmbed
    \/ StoreAdd

SpecIndex == InitIndex /\ [][NextIndex]_vars

\* the current call re-indexes the document of the call completed before it:
\* same document id, same chunk count, the earlier call returned and every
\* chunk of the current one was embedded
Reindexed ==
    /\ store.pc \in {"returned", "raised"}
    /\ Len(store.ids) = Len(store.text_chunks)
    /\ ~store.previous.none
    /\ ~store.previous.raised
    /\ store.previous.document_id = store.document_id
    /\ Len(store.previous.text_chunks) = Len(store.text_chunks)

\* C18: store_embeddings_in_chroma called twice with the same document id
\* and chunk count leaves the index with the same set of ids as after the
\* first call, and the content stored under doc_{document_id}_chunk_{i} is
\* that of the second call: the second call replaces, it is not rejected.
C18_IdempotentReindexing ==
    Reindexed =>
        /\ store.pc = "returned"
        /\ DOMAIN collection = store.previous.ids
        /\ \A i \in 1..Len(store.text_chunks) :
               /\ ChunkId(store.document_id, i - 1) \in DOMAIN collection
               /\ collection[ChunkId(store.document_id, i - 1)].document
                    = store.text_chunks[i]

\* the remote and the local call of the latest generate_embeddings call
RemoteCalls ==
    SelectSeq(store.last.calls,
              LAMBDA c : c.fn = "client.embeddings.create")

LocalCalls ==
    SelectSeq(store.last.calls,
              LAMBDA c : c.fn = "generate_embeddings_local")

\* C19: generate_embeddings calls the remote path first and returns its
\* vector when it succeeds, without calling the local model; the local model
\* is called if and only if the remote path raised; generate_embeddings
\* raises only when both paths raise, and then raises one error, the local
\* one.
C19_EmbeddingFallback ==
    store.last # NoEmbedding =>
        /\ Len(RemoteCalls) = 1
        /\ store.last.calls[1] = RemoteCalls[1]
        /\ Len(LocalCalls) <= 1
        /\ RemoteCalls[1].kind # "raise" =>
               /\ ~store.last.raised
               /\ store.last.val =
                      Vector("text-embedding-ada-002", store.last.text)
        /\ LocalCalls # <<>> <=> RemoteCalls[1].kind = "raise"
        /\ store.last.raised <=>
               /\ RemoteCalls[1].kind = "raise"
               /\ LocalCalls # <<>>
               /\ LocalCalls[1].kind = "raise"
        /\ store.last.raised =>
               store.last.err =
                   <<"Error generating local embeddings: ">> \o LocalCalls[1].s
        /\ (LocalCalls # <<>> /\ LocalCalls[1].kind # "raise") =>
               store.last.val = Vector("all-MiniLM-L6-v2", store.last.text)

\* the remote path raised and the local model's vector was stored
C19_Witness ==
    /\ store.pc = "returned"
    /\ RemoteCalls # <<>>
    /\ RemoteCalls[1].kind = "raise"
    /\ LocalCalls # <<>>
    /\ ~store.last.raised
    /\ store.last.val \in {store.embeddings[i] : i \in 1..Len(store.embeddings)}

\* the claim's condition for web search: a nodes and a configs section, a
\* first llmEngine node, and a truthy useWebSearch in that node's config
WebSearchEnabled(wf) ==
    /\ LLMNodePositions(wf) # {}
    /\ LET node == wf.nodes[FirstPosition(LLMNodePositions(wf))]
       IN  /\ "id" \in DOMAIN node
           /\ node.id \in DOMAIN wf.configs
           /\ "useWebSearch" \in DOMAIN wf.configs[node.id]
           /\ wf.configs[node.id].useWebSearch

\* the run is past the web search stage
PastWebSearch(r) == pc[r] \notin {"idle", "config", "kb", "web"}

\* C21: the web search provider is invoked in a run if and only if the
\* workflow has a nodes and a configs section, a first llmEngine node exists
\* and that node's config has a truthy useWebSearch; it is invoked at most
\* once, and always asked for 3 results.
C21_WebSearchActivation ==
    \A r \in Runs :
        /\ Called(r, "web_search") =>
               /\ WebSearchEnabled(req[r].workflow)
               /\ Len(CallsOf(r, "web_search")) = 1
               /\ WebSearchCall(r).n = 3
        /\ (PastWebSearch(r) /\ WebSearchEnabled(req[r].workflow)) =>
               Called(r, "web_search")

\* web search was invoked for a config that names no model
C21_Witness ==
    /\ Terminated("r1")
    /\ Called("r1", "web_search")
    /\ WebSearchCall("r1").n = 3
    /\ "model" \notin DOMAIN req["r1"].workflow.configs.n1

\* ------------------------------------- runs that differ in node config
\* values of the node config fields the interpreter does not read
UnreadFields ==
    { [temperature |-> 9, useKnowledgeBase |-> TRUE, maxContextChunks |-> 2],
      [temperature |-> 1, useKnowledgeBase |-> FALSE,
       maxContextChunks |-> 1] }

\* a definition whose llmEngine node config carries the fields f
NodeConfigWorkflow(web, f) ==
    [nodes |-> <<[id |-> "n1", type |-> "llmEngine"]>>,
     configs |-> [n1 |-> [model |-> "auto", useWebSearch |-> web,
                          temperature |-> f.temperature,
                          useKnowledgeBase |-> f.useKnowledgeBase,
                          maxContextChunks |-> f.maxContextChunks]]]

NodeConfigRequests ==
    { [workflow |-> NodeConfigWorkflow(web, f), query |-> query,
       preferred_model |-> "auto", use_knowledge_base |-> use,
       temperature |-> t, max_context_chunks |-> k] :
        web \in BOOLEAN, f \in UnreadFields, use \in BOOLEAN,
        t \in {2, temperature}, k \in {1, max_context_chunks} }

InitNodeConfig ==
    /\ InitCommon
    /\ IngestionIdle
    /\ pc = [r \in Runs |-> IF r = "r1" THEN "config" ELSE "idle"]
    /\ \E q \in NodeConfigRequests :
           req = [r \in Runs |-> IF r = "r1" THEN q ELSE NoRequest]
    /\ env = [r \in Runs |-> AnyEnv]

\* the collaborators answer run r2 as they answered run r1
SameAnswers(r) ==
    [kb |-> MatchingKb(r),
     serp |-> MatchingBackend(r, "serpapi_search"),
     brave |-> MatchingBackend(r, "brave_search"),
     openai |-> MatchingOpenAI(r),
     gemini |-> MatchingGemini(r),
     sink |-> SinkOutcomes]

\* the request of the finished run r1 is sent again as run r2 with other
\* values of temperature, useKnowledgeBase and maxContextChunks in the node
\* config, everything else the same
ResubmitNodeConfig ==
    /\ Terminated("r1")
    /\ pc["r2"] = "idle"
    /\ \E f \in UnreadFields :
         LET web == req["r1"].workflow.configs.n1.useWebSearch
         IN  /\ NodeConfigWorkflow(web, f) # req["r1"].workflow
             /\ req' = [req EXCEPT !["r2"] =
                    [req["r1"] EXCEPT !.workflow = NodeConfigWorkflow(web, f)]]
    /\ env' = [env EXCEPT !["r2"] = SameAnswers("r1")]
    /\ pc' = [pc EXCEPT !["r2"] = "config"]
    /\ UNCHANGED <<template, chunker, collection, store, llm_service, execution_logs,
                   loc, out, calls>>

NextNodeConfig ==
    \/ Next
    \/ ResubmitNodeConfig

SpecNodeConfig == InitNodeConfig /\ [][NextNodeConfig]_vars

\* what a run did and gave back, the log sink's answers left aside
Behaviour(r) ==
    [out |-> out[r],
     calls |-> SelectSeq(calls[r], LAMBDA c : c.fn # "log_execution"),
     logged |-> LoggedErrors(r)]

\* the run is past the knowledge-base stage
PastKnowledgeBase(r) == pc[r] \notin {"idle", "config", "kb"}

\* C22: two runs that differ only in the node config fields temperature,
\* useKnowledgeBase and maxContextChunks behave identically: retrieval is
\* performed iff the request-level use_knowledge_base is true, with k the
\* request-level max_context_chunks, and generation receives the
\* request-level temperature.
C22_NodeConfigNonInterference ==
    /\ \A r \in Runs :
           /\ PastKnowledgeBase(r) =>
                  (Called(r, "search_similar_chunks")
                     <=> req[r].use_knowledge_base)
           /\ Called(r, "search_similar_chunks") =>
                  CallsOf(r, "search_similar_chunks")[1].n
                      = req[r].max_context_chunks
           /\ Generated(r) =>
                  CallsOf(r, "generate_response")[1].n = req[r].temperature
    /\ (Terminated("r1") /\ Terminated("r2")) =>
           Behaviour("r1") = Behaviour("r2")

\* the node config said not to use the knowledge base and to take 1 chunk,
\* the request said to use it with 3; the config of the second run said the
\* opposite; both runs queried for 3 chunks and returned the same result
C22_Witness ==
    /\ Terminated("r1")
    /\ Terminated("r2")
    /\ req["r1"].use_knowledge_base
    /\ req["r1"].max_context_chunks = 3
    /\ ~req["r1"].workflow.configs.n1.useKnowledgeBase
    /\ req["r2"].workflow.configs.n1.useKnowledgeBase
    /\ req["r2"].workflow.configs.n1.temperature # req["r2"].temperature
    /\ CallsOf("r2", "search_similar_chunks")[1].n = 3
    /\ Len(CallsOf("r2", "search_similar_chunks")[1].items) = 2
    /\ out["r2"].kind = "returned"
    /\ out["r1"] = out["r2"]

\* C23: whenever run_workflow returns a result, log_execution was called
\* once in that run, before the result was returned, with the response,
\* model_used, success and error of the returned result; the entry is the
\* run's only row when the sink accepted it.
C23_LogEntryMirrorsResult ==
    \A r \in Runs :
        /\ pc[r] = "respond" =>
               /\ Len(CallsOf(r, "log_execution")) = 1
               /\ out[r] = NoOutcome
        /\ pc[r] = "returned" =>
               /\ Len(CallsOf(r, "log_execution")) = 1
               /\ CallsOf(r, "log_execution")[1].s = out[r].error
               /\ Len(EntriesOf(r)) <= 1
               /\ CallsOf(r, "log_execution")[1].kind = "inserted"
                    <=> Len(EntriesOf(r)) = 1
               /\ \A i \in 1..Len(EntriesOf(r)) :
                      /\ EntriesOf(r)[i].response = out[r].response
                      /\ EntriesOf(r)[i].model_used = out[r].model_used
                      /\ EntriesOf(r)[i].success = out[r].success
                      /\ EntriesOf(r)[i].error = out[r].error

\* a successful run with its row, and the row names the provider
C23_Witness ==
    /\ pc["r1"] = "returned"
    /\ out["r1"].success
    /\ Len(EntriesOf("r1")) = 1
    /\ EntriesOf("r1")[1].model_used = "gemini"
    /\ EntriesOf("r1")[1].response = out["r1"].response

\* the calls of the Gemini model variants the run made, in order
VariantCalls(r) ==
    SelectSeq(calls[r],
              LAMBDA c : \E i \in 1..Len(gemini_models) :
                             c.fn = gemini_models[i])

\* the variants are tried in the fixed order, the text of the first one
\* that succeeds is returned and none is tried after it, and the call
\* raises only when every variant failed
VariantsInOrder(r) ==
    /\ Len(VariantCalls(r)) \in 1..Len(gemini_models)
    /\ \A i \in 1..Len(VariantCalls(r)) :
           /\ VariantCalls(r)[i].fn = gemini_models[i]
           /\ i < Len(VariantCalls(r)) => VariantCalls(r)[i].kind = "raise"
    /\ GeminiCall(r).kind = "text" =>
           /\ VariantCalls(r)[Len(VariantCalls(r))].kind = "text"
           /\ GeminiCall(r).s = VariantCalls(r)[Len(VariantCalls(r))].s
    /\ GeminiCall(r).kind = "raise" <=>
           /\ Len(VariantCalls(r)) = Len(gemini_models)
           /\ \A i \in 1..Len(VariantCalls(r)) :
                  VariantCalls(r)[i].kind = "raise"

\* the raised error carries the failure of every variant
FailuresAggregated(r) ==
    \A i \in 1..Len(VariantCalls(r)) :
        \A j \in 1..Len(VariantCalls(r)[i].s) :
            Contains(GeminiCall(r).s, VariantCalls(r)[i].s[j])

\* C24: generate_response_gemini tries gemini-1.5-pro, gemini-1.5-flash and
\* gemini-pro in that order, returns the text of the first variant that
\* succeeds and tries no later one; it raises only when every variant
\* failed, and the raised error aggregates the failures of the variants.
C24_MultiVariantProvider ==
    \A r \in Runs :
        Called(r, "generate_response_gemini") =>
            /\ VariantsInOrder(r)
            /\ GeminiCall(r).kind = "raise" => FailuresAggregated(r)

\* --------------------------------------------------- concurrent runs
\* the requests and the collaborator answers of the concurrent runs
ConcurrentRequests ==
    { [workflow |-> [edges |-> <<>>], query |-> query,
       preferred_model |-> m, use_knowledge_base |-> TRUE,
       temperature |-> temperature,
       max_context_chunks |-> max_context_chunks] : m \in {"auto", "openai"} }
    \cup
    { [workflow |->
           [nodes |-> <<[id |-> "n1", type |-> "llmEngine"]>>,
            configs |-> [n1 |-> [model |-> "gemini", useWebSearch |-> TRUE]]],
       query |-> query, preferred_model |-> "auto",
       use_knowledge_base |-> FALSE, temperature |-> temperature,
       max_context_chunks |-> max_context_chunks] }

ConcurrentEnv ==
    [kb |-> {o \in KbOutcomes :
                o.kind = "raise" \/ o.docs = << <<"foo">> >>},
     serp |-> {o \in BackendOutcomes : o.results = <<>>},
     brave |-> {o \in BackendOutcomes : o.results = << <<"baz">> >>},
     openai |-> OpenAIOutcomes,
     gemini |-> {gm \in GeminiOutcomes :
                    \A i \in 1..Len(gemini_models) : gm[i] = gm[1]},
     sink |-> SinkOutcomes]

\* two requests arrive together; their handlers run in separate threads
InitConcurrent ==
    /\ InitCommon
    /\ IngestionIdle
    /\ pc = [r \in Runs |-> "config"]
    /\ req \in [Runs -> ConcurrentRequests]
    /\ env = [r \in Runs |-> ConcurrentEnv]

SpecConcurrent == InitConcurrent /\ [][Next]_vars

\* what run_workflow gives for a request when it runs alone and its
\* collaborators answer kb, sp, bv, oa and gm
RunAlone(request, avail, kb, sp, bv, oa, gm) ==
    LET c == ExtractConfig(request)
        context == IF request.use_knowledge_base
                   THEN KnowledgeBaseContext(kb) ELSE <<>>
        web_context == IF c.use_web_search
                       THEN WebContext(web_search(sp, bv)) ELSE <<>>
        full_context == Combine(context, web_context)
        res == generate_response(c.selected_model, avail, oa, gm).data
        exc == IF c.raised THEN c.err
               ELSE <<"1 validation error for WorkflowRunResponse">>
    IN  IF c.raised \/ res.response.none
        THEN [NoOutcome EXCEPT !.kind = "raised", !.status_code = 500,
                !.detail = <<"Workflow execution error: ">> \o exc]
        ELSE [kind |-> "returned", status_code |-> 200,
              response |-> res.response, model_used |-> res.model_used,
              context_used |-> ContextUsed(full_context),
              success |-> res.success, error |-> res.error, detail |-> <<>>]

\* the run's result is the one of a run alone with the answers it got
ResultAsAlone(r) ==
    \A kb \in env[r].kb, sp \in env[r].serp, bv \in env[r].brave,
       oa \in env[r].openai, gm \in env[r].gemini :
        (/\ kb \in MatchingKb(r)
         /\ sp \in MatchingBackend(r, "serpapi_search")
         /\ bv \in MatchingBackend(r, "brave_search")
         /\ oa \in MatchingOpenAI(r)
         /\ gm \in MatchingGemini(r)) =>
            out[r] = RunAlone(req[r], llm_service, kb, sp, bv, oa, gm)

\* the sink accepted the run's last log call
LastLogInserted(r) ==
    /\ Called(r, "log_execution")
    /\ CallsOf(r, "log_execution")[Len(CallsOf(r, "log_execution"))].kind
         = "inserted"

\* a step only appends to the execution log and leaves the availability
\* flags alone
AppendOnlyStep ==
    /\ llm_service' = llm_service
    /\ Len(execution_logs') >= Len(execution_logs)
    /\ SubSeq(execution_logs', 1, Len(execution_logs)) = execution_logs

\* C25: for any interleaving of concurrent run_workflow executions the
\* execution log ends with one new entry per run (for every run whose
\* insert the sink accepted), no entry is modified or removed, the
\* availability flags of the shared LLMService are never written, and each
\* run's result is the one it produces alone with the same answers.
C25_ConcurrentRunsIndependent ==
    /\ [](\A r \in Runs :
             /\ Len(EntriesOf(r)) <= 1
             /\ Terminated(r) =>
                    /\ Len(EntriesOf(r)) = 1 <=> LastLogInserted(r)
                    /\ ResultAsAlone(r))
    /\ [][AppendOnlyStep]_vars

\* both runs have their row; the run that raised logged before the run
\* that returned a result with its knowledge-base context
C25_Witness ==
    /\ Terminated("r1")
    /\ Terminated("r2")
    /\ Len(execution_logs) = 2
    /\ execution_logs[1].run = "r2"
    /\ execution_logs[2].run = "r1"
    /\ calls["r1"][1].fn = "search_similar_chunks"
    /\ out["r1"].kind = "returned"
    /\ out["r2"].kind = "raised"
    /\ out["r1"].context_used # PyNone

\* ------------------------------------------- runs with a failing sink
\* an insert of the run failed inside log_execution
InsertFailed(r) ==
    \E i \in 1..Len(CallsOf(r, "log_execution")) :
        CallsOf(r, "log_execution")[i].kind = "failed"

\* the request of the finished run r1, one of whose inserts failed, is sent
\* again as run r2: the collaborators answer as before and the database
\* accepts the inserts
ResubmitSinkAccepts ==
    /\ Terminated("r1")
    /\ InsertFailed("r1")
    /\ pc["r2"] = "idle"
    /\ req' = [req EXCEPT !["r2"] = req["r1"]]
    /\ env' = [env EXCEPT !["r2"] = [SameAnswers("r1") EXCEPT !.sink = {"ok"}]]
    /\ pc' = [pc EXCEPT !["r2"] = "config"]
    /\ UNCHANGED <<template, chunker, collection, store, llm_service, execution_logs,
                   loc, out, calls>>

NextSink ==
    \/ Next
    \/ ResubmitSinkAccepts

SpecSink == Init /\ [][NextSink]_vars

\* the calls of the run other than log_execution
DecisionCalls(r) == SelectSeq(calls[r], LAMBDA c : c.fn # "log_execution")

\* C26: when the insert fails inside log_execution no exception escapes it,
\* and run_workflow returns (or raises) exactly what it does when the insert
\* succeeds: the same response, model_used, context_used, success and error.
C26_LoggerNotInDecisionLogic ==
    /\ \A r \in Runs :
           /\ \A i \in 1..Len(CallsOf(r, "log_execution")) :
                  CallsOf(r, "log_execution")[i].kind \in {"inserted", "failed"}
           /\ pc[r] \in {"except", "raised"} =>
                  loc[r].exc \in {<<"'id'">>,
                                  <<"1 validation error for WorkflowRunResponse">>}
    /\ (Terminated("r1") /\ Terminated("r2")) =>
           /\ out["r1"] = out["r2"]
           /\ DecisionCalls("r1") = DecisionCalls("r2")
           /\ LoggedErrors("r1") = LoggedErrors("r2")

\* the first run's insert was refused and it wrote no row, the second run's
\* was accepted; both returned the same successful result
C26_Witness ==
    /\ Terminated("r1")
    /\ Terminated("r2")
    /\ EntriesOf("r1") = <<>>
    /\ Len(EntriesOf("r2")) = 1
    /\ out["r1"].kind = "returned"
    /\ out["r1"].success
    /\ out["r1"].context_used # PyNone
    /\ out["r2"] = out["r1"]

\* C27: with resolved model "auto", OpenAI available and raising and Gemini
\* unavailable, the result has success=false and its error is the failure
\* message of the OpenAI call that was attempted; Gemini is never invoked.
C27_AutoErrorWithoutFallback ==
    \A r \in Runs :
        (Generated(r) /\ Resolved(r) = "auto"
           /\ llm_service.openai /\ ~llm_service.gemini
           /\ OpenAICall(r).kind = "raise") =>
            /\ ~Called(r, "generate_response_gemini")
            /\ ~loc[r].result.success
            /\ loc[r].result.error = OpenAIError(OpenAICall(r).s)

\* ------------------------------------- termination of the chunking loop
\* the interpreter goes on running the function until it returns
SpecChunkFair == SpecChunk /\ WF_vars(NextChunk)

\* the parameters the claim speaks of
WindowAdvances ==
    /\ 0 <= chunker.overlap
    /\ chunker.overlap < chunker.chunk_size

\* ceil(len(text) / (chunk_size - overlap))
CeilChunks == (Len(chunker.text) + Step - 1) \div Step

\* an iteration of the loop moves start forward
StartIncreases ==
    (WindowAdvances /\ chunker.pc = "loop" /\ chunker' # chunker)
        => chunker'.start > chunker.start

\* the loop is never abandoned at the iteration cap
NeverCutShort ==
    ~(chunker.pc = "loop" /\ Len(chunker.chunks) >= MaxIterations)

\* C28 as stated: for every text and 0 <= overlap < chunk_size the function
\* returns after finitely many iterations with at most
\* ceil(len(text)/(chunk_size-overlap)) chunks, and start strictly increases
\* on every iteration.
C28_ChunkingTerminates_AsStated ==
    /\ [](WindowAdvances =>
            /\ NeverCutShort
            /\ Len(chunker.chunks) <= CeilChunks)
    /\ [][StartIncreases]_vars
    /\ (WindowAdvances ~> SplitReturned)

\* C28: for every text and 0 <= overlap < chunk_size the function returns
\* after finitely many iterations, and start strictly increases on every
\* iteration; a non-empty text gives at most
\* ceil(len(text)/(chunk_size-overlap)) chunks, the empty text gives the one
\* chunk "".
C28_ChunkingTerminates ==
    /\ [](WindowAdvances =>
            /\ NeverCutShort
            /\ chunker.text # <<>> => Len(chunker.chunks) <= CeilChunks
            /\ chunker.text = <<>> => Len(chunker.chunks) <= 1)
    /\ [][StartIncreases]_vars
    /\ (WindowAdvances ~> SplitReturned)

\* a text cut into as many chunks as the bound allows, one per step of 1
C28_Witness ==
    /\ SplitReturned
    /\ Windowed
    /\ Step = 1
    /\ Len(chunker.chunks) = CeilChunks
    /\ Len(chunker.chunks) = Len(chunker.text)
    /\ \A i \in 1..(Len(chunker.starts) - 1) :
           chunker.starts[i] < chunker.starts[i + 1]

\* the chunks that are included in the context: the non-empty ones, in
\* retrieval order
Included(chunks) == SelectSeq(chunks, LAMBDA c : c # <<>>)

\* C29: when the vector query returns chunks of which some are empty, the
\* empty ones are omitted and the included chunks are labelled "Context 1",
\* "Context 2", ... consecutively in retrieval order: the labels are 1..m
\* with no gap for m included chunks.
C29_KnowledgeBaseLabels ==
    \A r \in Runs :
        (Called(r, "search_similar_chunks") /\ PastKnowledgeBase(r)) =>
            loc[r].context = ContextPart("Context ", Included(ChunksOf(r)))

\* ------------------------------------------------ get_workflow_template
\* the names of DEFAULT_TEMPLATES, in order
DEFAULT_TEMPLATES ==
    <<"Document Q&A Assistant", "Web Research Assistant",
      "Content Generation Assistant">>

\* the template ids that are requested: -MaxTemplateId..MaxTemplateId
MaxTemplateId == 40

\* str(e) of HTTPException(status_code=404, detail="Template not found"):
\* "404: Template not found" where the class defines __str__, the empty
\* string where it does not
HTTPExceptionStr == { <<"404: ", "Template not found">>, <<>> }

InitTemplates ==
    /\ WorkflowIdle
    /\ chunker = ChunkerIdle
    /\ collection = EmptyCollection
    /\ store = StoreIdle
    /\ \E template_id \in (0 - MaxTemplateId)..MaxTemplateId :
           template = [TemplateIdle EXCEPT !.pc = "check",
                                           !.template_id = template_id]

\* lines 635-636: the range check, inside the try; its HTTPException(404) is
\* raised to the except clause of the same function
TemplateCheck ==
    /\ template.pc = "check"
    /\ template' = [template EXCEPT !.pc =
           IF template.template_id <= 0
                \/ template.template_id > Len(DEFAULT_TEMPLATES)
           THEN "except" ELSE "build"]
    /\ UNCHANGED <<chunker, collection, store, llm_service, execution_logs,
                   pc, req, env, loc, out, calls>>

\* lines 638-647: the template at position template_id is returned
TemplateBuild ==
    /\ template.pc = "build"
    /\ template' = [template EXCEPT
           !.pc = "returned", !.status_code = 200,
           !.id = template.template_id,
           !.name = DEFAULT_TEMPLATES[template.template_id]]
    /\ UNCHANGED <<chunker, collection, store, llm_service, execution_logs,
                   pc, req, env, loc, out, calls>>

\* lines 648-649: except Exception catches the HTTPException(404) and raises
\* HTTPException(status_code=500, detail=str(e))
TemplateExcept ==
    /\ template.pc = "except"
    /\ \E detail \in HTTPExceptionStr :
           template' = [template EXCEPT !.pc = "raised", !.status_code = 500,
                                        !.detail = detail]
    /\ UNCHANGED <<chunker, collection, store, llm_service, execution_logs,
                   pc, req, env, loc, out, calls>>

NextTemplates ==
    \/ TemplateCheck
    \/ TemplateBuild
    \/ TemplateExcept

SpecTemplates == InitTemplates /\ [][NextTemplates]_vars

\* C30: get_workflow_template returns the template at position template_id
\* for every template_id in 1..len(DEFAULT_TEMPLATES), and responds with
\* 404 "Template not found", and no other status, for every template_id <= 0
\* or > len(DEFAULT_TEMPLATES).
C30_TemplateLookupErrors ==
    template.pc \in {"returned", "raised"} =>
        IF template.template_id \in 1..Len(DEFAULT_TEMPLATES)
        THEN /\ template.pc = "returned"
             /\ template.id = template.template_id
             /\ template.name = DEFAULT_TEMPLATES[template.template_id]
        ELSE /\ template.pc = "raised"
             /\ template.status_code = 404
             /\ template.detail = <<"Template not found">>

====
